---- MODULE Spec2Model ----
(***************************************************************************)
(* A model of the editpro image pipeline (utils/presetEngine.processImage) *)
(* and of the values the application hands to it.                          *)
(*                                                                         *)
(* JavaScript numbers are modelled as exact rationals <<n, d>> in lowest   *)
(* terms with d > 0, extended with the three IEEE specials the pipeline    *)
(* can produce: <<1, 0>> is +Infinity, <<-1, 0>> is -Infinity and          *)
(* <<0, 0>> is NaN.  Typed-array stores and canvas compositing round to    *)
(* 8-bit integers the way the platform does.                               *)
(***************************************************************************)
EXTENDS Integers, Sequences, FiniteSets, TLC

(***************************************************************************)
(* Numbers                                                                 *)
(***************************************************************************)
Abs(n) == IF n < 0 THEN -n ELSE n

RECURSIVE GCD(_, _)
GCD(a, b) == IF b = 0 THEN a ELSE GCD(b, a % b)

\* The rational n/d in lowest terms (d # 0).
Q(n, d) ==
    LET g == GCD(Abs(n), Abs(d))
        s == IF d < 0 THEN -1 ELSE 1
    IN  <<s * (n \div g), s * (d \div g)>>

N(i) == <<i, 1>>
PosInf == <<1, 0>>
NegInf == <<-1, 0>>
NaN == <<0, 0>>

IsFinite(x) == x[2] # 0
IsNaN(x) == x = NaN
Sign(x) == IF x[1] > 0 THEN 1 ELSE IF x[1] < 0 THEN -1 ELSE 0

RNeg(x) == <<-x[1], x[2]>>

RAdd(x, y) ==
    IF IsNaN(x) \/ IsNaN(y) THEN NaN
    ELSE IF ~IsFinite(x) THEN (IF ~IsFinite(y) /\ y # x THEN NaN ELSE x)
    ELSE IF ~IsFinite(y) THEN y
    ELSE LET g == GCD(x[2], y[2])
         IN  Q(x[1] * (y[2] \div g) + y[1] * (x[2] \div g), (x[2] \div g) * y[2])

RSub(x, y) == RAdd(x, RNeg(y))

RMul(x, y) ==
    IF IsNaN(x) \/ IsNaN(y) THEN NaN
    ELSE IF ~IsFinite(x) \/ ~IsFinite(y)
         THEN (IF Sign(x) * Sign(y) = 0 THEN NaN ELSE <<Sign(x) * Sign(y), 0>>)
    ELSE LET g1 == GCD(Abs(x[1]), y[2])
             g2 == GCD(Abs(y[1]), x[2])
         IN  <<(x[1] \div g1) * (y[1] \div g2), (x[2] \div g2) * (y[2] \div g1)>>

\* x / y for finite x; a zero divisor is the positive zero the pipeline's
\* sums and differences produce, so x / 0 takes the sign of x.
RDiv(x, y) ==
    IF IsNaN(x) \/ IsNaN(y) THEN NaN
    ELSE IF ~IsFinite(y) THEN (IF IsFinite(x) THEN N(0) ELSE NaN)
    ELSE IF ~IsFinite(x) THEN (IF Sign(y) < 0 THEN RNeg(x) ELSE x)
    ELSE IF y[1] = 0 THEN <<Sign(x), 0>>
    ELSE RMul(x, Q(y[2], y[1]))

\* Comparisons are false as soon as one side is NaN, as in IEEE arithmetic.
RLt(x, y) ==
    IF IsNaN(x) \/ IsNaN(y) THEN FALSE
    ELSE IF ~IsFinite(x) THEN x = NegInf /\ y # NegInf
    ELSE IF ~IsFinite(y) THEN y = PosInf
    ELSE LET g == GCD(x[2], y[2])
         IN  x[1] * (y[2] \div g) < y[1] * (x[2] \div g)

RGt(x, y) == RLt(y, x)
RLe(x, y) == ~IsNaN(x) /\ ~IsNaN(y) /\ ~RLt(y, x)
REq(x, y) == ~IsNaN(x) /\ ~IsNaN(y) /\ x = y

\* Math.max / Math.min / Math.abs: NaN is contagious.
MathMax(x, y) == IF IsNaN(x) \/ IsNaN(y) THEN NaN ELSE IF RLt(x, y) THEN y ELSE x
MathMin(x, y) == IF IsNaN(x) \/ IsNaN(y) THEN NaN ELSE IF RLt(y, x) THEN y ELSE x
MathAbs(x) == <<Abs(x[1]), x[2]>>

Floor(x) == x[1] \div x[2]

\* Round to the nearest integer, ties to the even one (finite x).
RoundHalfEven(x) ==
    LET f == Floor(x)
        twice == 2 * (x[1] - f * x[2])
    IN  IF twice < x[2] THEN f
        ELSE IF twice > x[2] THEN f + 1
        ELSE IF f % 2 = 0 THEN f ELSE f + 1

\* Round to the nearest integer, ties upward (finite x).
RoundHalfUp(x) ==
    LET f == Floor(x)
    IN  IF 2 * (x[1] - f * x[2]) < x[2] THEN f ELSE f + 1

ChannelMax == 255

\* A store into a plain number array (Array or Float32Array) instead of a
\* clamped one: the value is kept, here rounded, whatever its range.
StoreUnclamped(x) ==
    IF ~IsFinite(x) THEN 0 ELSE RoundHalfEven(x)

\* A store into a Uint8ClampedArray (ToUint8Clamp): NaN becomes 0, the value
\* is clamped to [0,255] and rounded half to even.
ToUint8Clamp(x) ==
    IF IsNaN(x) THEN 0
    ELSE IF RLe(x, N(0)) THEN 0
    ELSE IF RLe(N(ChannelMax), x) THEN ChannelMax
    ELSE RoundHalfEven(x)

\* An 8-bit channel written by canvas compositing or a canvas filter.
CanvasByte(x) ==
    IF RLe(x, N(0)) THEN 0
    ELSE IF RLe(N(ChannelMax), x) THEN ChannelMax
    ELSE RoundHalfUp(x)

(***************************************************************************)
(* Data: pixels, images, presets, manual settings                          *)
(***************************************************************************)
\* A pixel is <<r, g, b, a>> of 8-bit channels; a buffer is the row-major
\* sequence of an image's pixels (ImageData.data, four entries per pixel).
Px(r, g, b) == <<r, g, b, ChannelMax>>

\* An optional value is the empty set (undefined) or a singleton.
Undefined == {}
Some(v) == {v}
The(o) == CHOOSE v \in o : TRUE

\* PresetSettings (data/presets.ts): the CSS filter recipe as a sequence of
\* <<function, argument>> and the optional structured fields.
PlainPreset ==
    [ filters |-> <<>>,
      overlay |-> Undefined,
      aiSubjectOnly |-> Undefined,
      frequencySeparation |-> Undefined,
      tonalRange |-> Undefined,
      toneCurve |-> Undefined,
      colorBalance |-> Undefined,
      glow |-> Undefined ]

\* presets[] entry 'studio-master-pro'.
StudioMasterPro ==
    [ filters |-> << <<"brightness", Q(105, 100)>> >>,
      overlay |-> Undefined,
      aiSubjectOnly |-> Undefined,
      frequencySeparation |-> Some([radius |-> N(8), intensity |-> Q(8, 10), toneSmoothing |-> TRUE]),
      tonalRange |-> Some([whites |-> Q(112, 100), blacks |-> Q(86, 100),
                           highlights |-> Q(62, 100), shadows |-> Q(132, 100),
                           dehaze |-> Q(-2, 100)]),
      toneCurve |-> Some([highlights |-> N(8), lights |-> N(5), darks |-> N(-6), shadows |-> N(-10)]),
      colorBalance |-> Some([temp |-> N(4), tint |-> N(2)]),
      glow |-> Some([intensity |-> Q(25, 100), radius |-> N(25)]) ]

\* presets[] entry 'pro-sharpen-details'.
ProSharpen == [PlainPreset EXCEPT !.filters = << <<"contrast", Q(105, 100)>> >>]

\* presets[] entry 'neural-bokeh-pro'.
NeuralBokehPro ==
    [PlainPreset EXCEPT
        !.filters = << <<"brightness", Q(105, 100)>>, <<"saturate", Q(11, 10)>> >>,
        !.overlay = Some([type |-> "neural-bokeh", intensity |-> Q(6, 10)])]

StructuredFields ==
    {"tonalRange", "toneCurve", "frequencySeparation", "colorBalance", "glow", "overlay"}

\* The value each structured field takes in the presets of the model that
\* set it (taken from 'studio-master-pro' and 'neural-bokeh-pro'), and a
\* second value of the same shape.
FieldValue(f) ==
    IF f = "overlay" THEN NeuralBokehPro.overlay ELSE StudioMasterPro[f]

OtherFieldValue(f) ==
    CASE f = "tonalRange" -> Some([whites |-> Q(105, 100), blacks |-> Q(95, 100),
                                   highlights |-> Q(9, 10), shadows |-> Q(11, 10)])
      [] f = "toneCurve" -> Some([highlights |-> N(5), lights |-> N(2), darks |-> N(-2), shadows |-> N(-5)])
      [] f = "frequencySeparation" -> Some([radius |-> N(1), intensity |-> Q(9, 10)])
      [] f = "colorBalance" -> Some([temp |-> N(-40), tint |-> N(30)])
      [] f = "glow" -> Some([intensity |-> Q(5, 10), radius |-> N(4)])
      [] f = "overlay" -> Some([type |-> "vignette", intensity |-> Q(1, 10)])

WithField(p, f, v) == [p EXCEPT ![f] = v]

\* DEFAULT_MANUAL_SETTINGS (App.tsx).  disabledSections is the set of the
\* section keys whose flag is true.
DEFAULT_MANUAL_SETTINGS ==
    [ exposure |-> N(1), contrast |-> N(1), saturation |-> N(1), sharpness |-> N(0),
      highlights |-> N(1), shadows |-> N(1), whites |-> N(1), blacks |-> N(1),
      texture |-> N(0), clarity |-> N(0), dehaze |-> N(0), temp |-> N(0), tint |-> N(0),
      whiteOverlay |-> N(0), blackOverlay |-> N(0), disabledSections |-> {},
      skinSoftening |-> N(0), brightness |-> N(1), noiseReduction |-> N(0), hue |-> N(0),
      levelsBlack |-> N(0), levelsWhite |-> N(255),
      tintShadows |-> "#000000", tintHighlights |-> "#ffffff",
      autoBrush |-> N(0), curves |-> N(0), vibrance |-> N(1), skinTone |-> N(0),
      dodgeBurn |-> N(0), sharpenRadius |-> N(1), sharpenDetail |-> N(25),
      vignette |-> N(0), grain |-> N(0),
      watermarkText |-> "Akins_studio", watermarkOpacity |-> Q(8, 10),
      watermarkSize |-> N(20), watermarkColor |-> "#ffffff" ]

\* processImage called without its third argument.
NoManual == [f \in {} |-> N(0)]

SectionKeys == {"basic", "detail", "grading", "effects", "retouch", "watermark"}

\* The destructuring of `manualSettings || {}` with its defaults.
Field(ms, f, default) == IF f \in DOMAIN ms THEN ms[f] ELSE default

EffectiveSettings(ms) ==
    [ exposure |-> Field(ms, "exposure", N(1)),
      whites |-> Field(ms, "whites", N(1)),
      blacks |-> Field(ms, "blacks", N(1)),
      contrast |-> Field(ms, "contrast", N(1)),
      highlights |-> Field(ms, "highlights", N(1)),
      shadows |-> Field(ms, "shadows", N(1)),
      saturation |-> Field(ms, "saturation", N(1)),
      vibrance |-> Field(ms, "vibrance", N(1)),
      texture |-> Field(ms, "texture", N(0)),
      clarity |-> Field(ms, "clarity", N(0)),
      dehaze |-> Field(ms, "dehaze", N(0)),
      temp |-> Field(ms, "temp", N(0)),
      tint |-> Field(ms, "tint", N(0)),
      sharpness |-> Field(ms, "sharpness", N(0)),
      skinSoftening |-> Field(ms, "skinSoftening", N(0)),
      dodgeBurn |-> Field(ms, "dodgeBurn", N(0)),
      sharpenRadius |-> Field(ms, "sharpenRadius", N(1)),
      sharpenDetail |-> Field(ms, "sharpenDetail", N(25)),
      vignette |-> Field(ms, "vignette", N(0)),
      watermarkText |-> Field(ms, "watermarkText", ""),
      watermarkOpacity |-> Field(ms, "watermarkOpacity", Q(8, 10)),
      watermarkSize |-> Field(ms, "watermarkSize", N(20)),
      watermarkColor |-> Field(ms, "watermarkColor", "#ffffff"),
      whiteOverlay |-> Field(ms, "whiteOverlay", N(0)),
      blackOverlay |-> Field(ms, "blackOverlay", N(0)),
      disabledSections |-> Field(ms, "disabledSections", {}) ]

Disabled(s, key) == key \in s.disabledSections

(***************************************************************************)
(* ToneStage: white balance, exposure and whites, blacks, dehaze           *)
(***************************************************************************)
\* The preset's temperature left out of the white balance, as if a manual
\* temp replaced it.
PresetTempIgnored(preset) == N(0)

\* preset.colorBalance?.temp || 0 and preset.colorBalance?.tint || 0
PresetTemp(preset) ==
    IF preset.colorBalance = Undefined THEN N(0) ELSE The(preset.colorBalance).temp

PresetTint(preset) ==
    IF preset.colorBalance = Undefined THEN N(0) ELSE The(preset.colorBalance).tint

applyWB(r, g, b, t, tn) ==
    LET r1 == RAdd(r, RMul(t, Q(1, 2)))
        b1 == RSub(b, RMul(t, Q(1, 2)))
        g1 == RSub(g, RMul(tn, Q(1, 2)))
        r2 == RAdd(r1, RMul(tn, Q(1, 4)))
        b2 == RAdd(b1, RMul(tn, Q(1, 4)))
    IN  [r |-> r2, g |-> g1, b |-> b2]

\* Math.max(0, Math.min(255, x))
Clamp255(x) == MathMax(N(0), MathMin(N(ChannelMax), x))

\* ToneChannel with the blacks offset taken from blacks instead of
\* blacks - 1, so that the default blacks = 1 is no longer neutral.
ToneChannelBlacksSlip(c, s) ==
    LET c1 == RMul(RMul(c, s.exposure), s.whites)
        bOffset == RMul(s.blacks, N(50))
        c2 == RAdd(c1, bOffset)
        dFactor == RMul(s.dehaze, Q(3, 10))
    IN  IF s.dehaze # N(0)
        THEN RAdd(RAdd(RMul(RSub(c2, N(128)), RAdd(N(1), dFactor)), N(128)),
                  RMul(s.dehaze, N(15)))
        ELSE c2

\* ToneChannel with a dehaze that only stretches contrast about 128 and
\* leaves out the lift of dehaze * 15.
ToneChannelNoLift(c, s) ==
    LET c1 == RMul(RMul(c, s.exposure), s.whites)
        bOffset == RMul(RSub(s.blacks, N(1)), N(50))
        c2 == RAdd(c1, bOffset)
        dFactor == RMul(s.dehaze, Q(3, 10))
    IN  IF s.dehaze # N(0)
        THEN RAdd(RMul(RSub(c2, N(128)), RAdd(N(1), dFactor)), N(128))
        ELSE c2

\* One channel through exposure and whites, the blacks offset and dehaze.
ToneChannel(c, s) ==
    LET c1 == RMul(RMul(c, s.exposure), s.whites)
        bOffset == RMul(RSub(s.blacks, N(1)), N(50))
        c2 == RAdd(c1, bOffset)
        dFactor == RMul(s.dehaze, Q(3, 10))
    IN  IF s.dehaze # N(0)
        THEN RAdd(RAdd(RMul(RSub(c2, N(128)), RAdd(N(1), dFactor)), N(128)),
                  RMul(s.dehaze, N(15)))
        ELSE c2

\* The unrounded channel values ToneStage computes for one pixel.
ToneValues(p, preset, s) ==
    LET wb == applyWB(N(p[1]), N(p[2]), N(p[3]),
                      RAdd(PresetTemp(preset), s.temp), RAdd(PresetTint(preset), s.tint))
    IN  <<ToneChannel(wb.r, s), ToneChannel(wb.g, s), ToneChannel(wb.b, s)>>

\* The tone loop storing an opaque alpha with the three colours.
TonePixelOpaque(p, preset, s) ==
    LET v == ToneValues(p, preset, s)
    IN  <<ToUint8Clamp(Clamp255(v[1])), ToUint8Clamp(Clamp255(v[2])),
          ToUint8Clamp(Clamp255(v[3])), ChannelMax>>

TonePixel(p, preset, s) ==
    LET v == ToneValues(p, preset, s)
    IN  <<ToUint8Clamp(Clamp255(v[1])), ToUint8Clamp(Clamp255(v[2])),
          ToUint8Clamp(Clamp255(v[3])), p[4]>>

\* The tone loop run without looking at disabledSections.
ToneStageUngated(data, preset, s) ==
    [i \in DOMAIN data |-> TonePixel(data[i], preset, s)]

ToneStage(data, preset, s) ==
    IF ~Disabled(s, "basic")
    THEN [i \in DOMAIN data |-> TonePixel(data[i], preset, s)]
    ELSE data

(***************************************************************************)
(* BaseFilterStage: the canvas filter preset.filters + contrast + saturate *)
(***************************************************************************)
\* bctx.filter = preset.filters + ` contrast(${contrast}) saturate(${saturation})`
FilterRecipe(preset, s) ==
    preset.filters \o << <<"contrast", s.contrast>>, <<"saturate", s.saturation>> >>

\* A filter list with a negative argument does not parse; the assignment to
\* ctx.filter is then ignored and the context keeps the filter "none".
RecipeParses(recipe) ==
    \A k \in DOMAIN recipe : IsFinite(recipe[k][2]) /\ RLe(N(0), recipe[k][2])

\* One filter function on one pixel (CSS Filter Effects), 8-bit result.
FilterOp(op, p) ==
    LET a == op[2]
        r == N(p[1])
        g == N(p[2])
        b == N(p[3])
        lr == Q(213, 1000)
        lg == Q(715, 1000)
        lb == Q(72, 1000)
        Mix(kr, kg, kb) == RAdd(RAdd(RMul(kr, r), RMul(kg, g)), RMul(kb, b))
        Own(l) == RAdd(l, RMul(RSub(N(1), l), a))
        Oth(l) == RSub(l, RMul(l, a))
        Contrast(c) == RAdd(RMul(c, a), RMul(RSub(N(1), a), Q(ChannelMax, 2)))
    IN  CASE op[1] = "brightness" ->
                <<CanvasByte(RMul(r, a)), CanvasByte(RMul(g, a)), CanvasByte(RMul(b, a)), p[4]>>
          [] op[1] = "contrast" ->
                <<CanvasByte(Contrast(r)), CanvasByte(Contrast(g)), CanvasByte(Contrast(b)), p[4]>>
          [] op[1] = "saturate" ->
                <<CanvasByte(Mix(Own(lr), Oth(lg), Oth(lb))),
                  CanvasByte(Mix(Oth(lr), Own(lg), Oth(lb))),
                  CanvasByte(Mix(Oth(lr), Oth(lg), Own(lb))), p[4]>>

RECURSIVE FilterPixel(_, _)
FilterPixel(recipe, p) ==
    IF recipe = <<>> THEN p
    ELSE FilterPixel(Tail(recipe), FilterOp(Head(recipe), p))

\* bctx.drawImage(canvas, 0, 0) under the filter.
BaseFilterStage(canvasPixels, preset, s) ==
    LET recipe == FilterRecipe(preset, s)
    IN  IF RecipeParses(recipe)
        THEN [i \in DOMAIN canvasPixels |-> FilterPixel(recipe, canvasPixels[i])]
        ELSE canvasPixels

(***************************************************************************)
(* BlurEngine: ctx.filter = blur(Npx) followed by drawImage                *)
(***************************************************************************)
\* The blur is a tent kernel of half-width 2*radius + 1 (two box passes),
\* separable in x and y, normalised over the pixels inside the image.
TentWeight(k, radius) ==
    LET wgt == RSub(RAdd(RMul(N(2), radius), N(1)), N(k))
    IN  IF RLt(N(0), wgt) THEN wgt ELSE N(0)

RECURSIVE RSum(_, _, _)
RSum(f, from, to) == IF from > to THEN N(0) ELSE RAdd(f[from], RSum(f, from + 1, to))

BlurPixel(px, w, h, i, radius) ==
    LET x == (i - 1) % w
        y == (i - 1) \div w
        Wgt(j) == RMul(TentWeight(Abs(((j - 1) % w) - x), radius),
                       TentWeight(Abs(((j - 1) \div w) - y), radius))
        wts == [j \in 1..(w * h) |-> Wgt(j)]
        total == RSum(wts, 1, w * h)
        Chan(c) == CanvasByte(RDiv(RSum([j \in 1..(w * h) |-> RMul(wts[j], N(px[j][c]))], 1, w * h), total))
    IN  <<Chan(1), Chan(2), Chan(3), px[i][4]>>

Blur(px, w, h, radius) ==
    IF radius = N(0) THEN px
    ELSE [i \in DOMAIN px |-> BlurPixel(px, w, h, i, radius)]

\* Assigning `blur(${radius}px)` to ctx.filter: a negative length does not
\* parse, and the context keeps the filter it had ("none" is radius 0).
SetBlurFilter(previous, radius) ==
    IF IsFinite(radius) /\ RLe(N(0), radius) THEN radius ELSE previous

FineRadius == 2
MediumRadius == 12
DefaultFsRadius == 8

\* preset.frequencySeparation?.radius || 8
fsRadius(preset) ==
    IF preset.frequencySeparation = Undefined
        \/ The(preset.frequencySeparation).radius = N(0)
    THEN N(DefaultFsRadius)
    ELSE The(preset.frequencySeparation).radius

fineBlurred(base, w, h) == Blur(base, w, h, SetBlurFilter(N(0), N(FineRadius)))

mediumBlurred(base, w, h) == Blur(base, w, h, SetBlurFilter(N(FineRadius), N(MediumRadius)))

fsBlurred(base, w, h, preset) ==
    Blur(base, w, h, SetBlurFilter(N(MediumRadius), fsRadius(preset)))

(***************************************************************************)
(* DetailStage: unsharp mask                                               *)
(***************************************************************************)
DetailActive(s) == ~Disabled(s, "detail") /\ RGt(s.sharpness, N(0))

\* blctx is a fresh context: its filter is "none" until a blur parses.
blurredData(base, w, h, s) == Blur(base, w, h, SetBlurFilter(N(0), s.sharpenRadius))

\* The amount taken from sharpness alone, sharpenDetail left out.
intensityOfSharpness(s) == RMul(s.sharpness, Q(1, 2))

intensity(s) == RMul(s.sharpness, RAdd(Q(1, 2), RDiv(s.sharpenDetail, N(50))))

\* pixels[i] += (pixels[i] - blurredData[i]) * intensity, stored in the
\* Uint8ClampedArray pixels.
SharpenChannel(c, blurred, k) ==
    ToUint8Clamp(RAdd(N(c), RMul(RSub(N(c), N(blurred)), k)))

DetailStage(pixels, base, w, h, s) ==
    IF DetailActive(s)
    THEN LET bl == blurredData(base, w, h, s)
             k == intensity(s)
         IN  [i \in DOMAIN pixels |->
                <<SharpenChannel(pixels[i][1], bl[i][1], k),
                  SharpenChannel(pixels[i][2], bl[i][2], k),
                  SharpenChannel(pixels[i][3], bl[i][3], k),
                  pixels[i][4]>>]
    ELSE pixels

(***************************************************************************)
(* The pixel pass: presence, vibrance, retouch                             *)
(***************************************************************************)
\* c += (c - blurred) * amount * gain
LocalContrast(c, blurred, amount, gain) ==
    RAdd(c, RMul(RMul(RSub(c, N(blurred)), amount), gain))

\* The texture result clamped to [0,255] before clarity is computed on it.
PresenceValuesClamped(p, fine, medium, s) ==
    LET t == IF s.texture # N(0)
             THEN [c \in 1..3 |-> Clamp255(LocalContrast(N(p[c]), fine[c], s.texture, Q(8, 10)))]
             ELSE [c \in 1..3 |-> N(p[c])]
    IN  IF s.clarity # N(0)
        THEN [c \in 1..3 |-> LocalContrast(t[c], medium[c], s.clarity, Q(1, 2))]
        ELSE t

PresenceValues(p, fine, medium, s) ==
    LET t == IF s.texture # N(0)
             THEN [c \in 1..3 |-> LocalContrast(N(p[c]), fine[c], s.texture, Q(8, 10))]
             ELSE [c \in 1..3 |-> N(p[c])]
    IN  IF s.clarity # N(0)
        THEN [c \in 1..3 |-> LocalContrast(t[c], medium[c], s.clarity, Q(1, 2))]
        ELSE t

Max3(v) == MathMax(MathMax(v[1], v[2]), v[3])
Min3(v) == MathMin(MathMin(v[1], v[2]), v[3])

\* Lightness on a 0..256 scale: (max + min) / 512.
LightnessOf256(v) == RDiv(RAdd(Max3(v), Min3(v)), N(512))

\* l = (max + min) / 510
Lightness(v) == RDiv(RAdd(Max3(v), Min3(v)), N(510))

\* s = max === min ? 0 : l > 0.5 ? (max-min)/(510-max-min) : (max-min)/(max+min)
SaturationOf(v) ==
    LET max == Max3(v)
        min == Min3(v)
    IN  IF REq(max, min) THEN N(0)
        ELSE IF RGt(Lightness(v), Q(1, 2))
             THEN RDiv(RSub(max, min), RSub(RSub(N(510), max), min))
             ELSE RDiv(RSub(max, min), RAdd(max, min))

vFactor(v, s) == RAdd(N(1), RMul(RSub(N(1), SaturationOf(v)), RSub(s.vibrance, N(1))))

VibranceValues(v, s) ==
    IF s.vibrance # N(1)
    THEN LET mid == RMul(Lightness(v), N(ChannelMax))
             f == vFactor(v, s)
         IN  [c \in 1..3 |-> RAdd(mid, RMul(RSub(v[c], mid), f))]
    ELSE v

\* The colour heuristic of the retouch step.
isSkin(v) ==
    /\ RGt(v[1], N(95)) /\ RGt(v[2], N(40)) /\ RGt(v[3], N(20))
    /\ RGt(v[1], v[2]) /\ RGt(v[1], v[3])
    /\ RGt(MathAbs(RSub(v[1], v[2])), N(15))

\* blend without its final scaling by 0.8.
blendUnscaled(s) ==
    RAdd(RMul(s.skinSoftening, Q(6, 10)),
         IF RLt(s.texture, N(0)) THEN MathAbs(s.texture) ELSE N(0))

\* blend = (skinSoftening * 0.6 + (texture < 0 ? Math.abs(texture) : 0)) * 0.8
blend(s) ==
    RMul(RAdd(RMul(s.skinSoftening, Q(6, 10)),
              IF RLt(s.texture, N(0)) THEN MathAbs(s.texture) ELSE N(0)),
         Q(8, 10))

\* The two weights of the blend exchanged: c * blend + fsBlurred * (1 - blend).
BlendChannelSwapped(c, blurred, k) == RAdd(RMul(c, k), RMul(N(blurred), RSub(N(1), k)))

\* c * (1 - blend) + fsBlurred * blend
BlendChannel(c, blurred, k) == RAdd(RMul(c, RSub(N(1), k)), RMul(N(blurred), k))

\* boost = 1 + ((r + g + b) / 3 - 128) / 128 * dodgeBurn * 0.4
boost(v, s) ==
    RAdd(N(1),
         RMul(RMul(RDiv(RSub(RDiv(RAdd(RAdd(v[1], v[2]), v[3]), N(3)), N(128)), N(128)),
                   s.dodgeBurn),
              Q(4, 10)))

\* A retouch step that takes every pixel as its subject.
RetouchEveryPixel(v, s) == ~Disabled(s, "retouch")

\* Whether the retouch step treats the pixel as its subject.
RetouchSubject(v, s) == ~Disabled(s, "retouch") /\ isSkin(v)

RetouchValues(v, fs, s) ==
    IF RetouchSubject(v, s)
    THEN LET k == blend(s)
             bl == [c \in 1..3 |-> BlendChannel(v[c], fs[c], k)]
         IN  IF RGt(s.dodgeBurn, N(0))
             THEN [c \in 1..3 |-> RMul(bl[c], boost(bl, s))]
             ELSE bl
    ELSE v

\* The channel values before and after each step of one pixel's pass.
PixelSteps(p, fine, medium, fs, s) ==
    LET pr == PresenceValues(p, fine, medium, s)
        vb == VibranceValues(pr, s)
        rt == RetouchValues(vb, fs, s)
    IN  [presence |-> pr, vibrance |-> vb, retouch |-> rt]

PixelPass(p, fine, medium, fs, s) ==
    LET v == PixelSteps(p, fine, medium, fs, s).retouch
    IN  <<ToUint8Clamp(Clamp255(v[1])), ToUint8Clamp(Clamp255(v[2])),
          ToUint8Clamp(Clamp255(v[3])), p[4]>>

PixelStage(pixels, fine, medium, fs, s) ==
    [i \in DOMAIN pixels |-> PixelPass(pixels[i], fine[i], medium[i], fs[i], s)]

(***************************************************************************)
(* EffectsStage, WatermarkStage and the encoder (canvas compositing)       *)
(***************************************************************************)
\* The largest k with k * k <= n, for lo * lo <= n < hi * hi.
RECURSIVE ISqrtIn(_, _, _)
ISqrtIn(n, lo, hi) ==
    IF hi - lo <= 1 THEN lo
    ELSE LET mid == (lo + hi) \div 2
         IN  IF mid * mid <= n THEN ISqrtIn(n, mid, hi) ELSE ISqrtIn(n, lo, mid)

\* The square root of a natural number, exact on perfect squares and cut to
\* two decimals otherwise.
Sqrt(n) == Q(ISqrtIn(n * 10000, 0, 100 * n + 1), 100)

\* An alpha written in a CSS colour is clamped to [0,1].
CssAlpha(a) == MathMax(N(0), MathMin(N(1), a))

\* The offset of pixel i's centre along the gradient ray, as a fraction of
\* the outer radius Math.max(width, height) * 0.8.
GradientOffset(w, h, i) ==
    LET x == (i - 1) % w
        y == (i - 1) \div w
        dx2 == 2 * x + 1 - w
        dy2 == 2 * y + 1 - h
        dist == RMul(Sqrt(dx2 * dx2 + dy2 * dy2), Q(1, 2))
        outer == RMul(N(IF w > h THEN w ELSE h), Q(8, 10))
    IN  RDiv(dist, outer)

\* A gradient with a hard edge: the full alpha from the 0.4 stop outward.
VignetteAlphaStep(t, vignette) ==
    IF RLe(t, Q(4, 10)) THEN N(0) ELSE CssAlpha(vignette)

\* Stops: 0.4 'transparent', 1 rgba(0,0,0,vignette).
VignetteAlpha(t, vignette) ==
    IF RLe(t, Q(4, 10)) THEN N(0)
    ELSE IF RLe(N(1), t) THEN CssAlpha(vignette)
    ELSE RMul(CssAlpha(vignette), RDiv(RSub(t, Q(4, 10)), Q(6, 10)))

\* source-over of black at the given alpha
Darken(c, a) == CanvasByte(RMul(N(c), RSub(N(1), a)))

\* `screen` of white at the given alpha: c + a * (255 - c)
ScreenWhite(c, a) == CanvasByte(RAdd(N(c), RMul(a, RSub(N(ChannelMax), N(c)))))

\* The vignette put behind the effects toggle, like the overlays.
VignetteWithEffects(s) == ~Disabled(s, "effects") /\ RGt(s.vignette, N(0))

VignetteActive(s) == RGt(s.vignette, N(0))

VignetteStage(px, w, h, s) ==
    IF VignetteActive(s)
    THEN [i \in DOMAIN px |->
            LET a == VignetteAlpha(GradientOffset(w, h, i), s.vignette)
            IN  <<Darken(px[i][1], a), Darken(px[i][2], a), Darken(px[i][3], a), px[i][4]>>]
    ELSE px

WhiteOverlayStage(px, s) ==
    IF RGt(s.whiteOverlay, N(0))
    THEN LET a == CssAlpha(RMul(s.whiteOverlay, Q(3, 10)))
         IN  [i \in DOMAIN px |->
                <<ScreenWhite(px[i][1], a), ScreenWhite(px[i][2], a),
                  ScreenWhite(px[i][3], a), px[i][4]>>]
    ELSE px

BlackOverlayStage(px, s) ==
    IF RGt(s.blackOverlay, N(0))
    THEN LET a == CssAlpha(s.blackOverlay)
         IN  [i \in DOMAIN px |->
                <<Darken(px[i][1], a), Darken(px[i][2], a), Darken(px[i][3], a), px[i][4]>>]
    ELSE px

OverlayStage(px, s) ==
    IF ~Disabled(s, "effects")
    THEN BlackOverlayStage(WhiteOverlayStage(px, s), s)
    ELSE px

WatermarkActive(s) ==
    ~Disabled(s, "watermark") /\ s.watermarkText # "" /\ RGt(s.watermarkOpacity, N(0))

\* bctx.fillStyle = watermarkColor
ColorOf(c) == IF c = "#ffffff" THEN <<255, 255, 255>> ELSE <<0, 0, 0>>

\* The text is anchored right/bottom at (width - fontSize, height - fontSize)
\* with fontSize = (width / 100) * watermarkSize; the model paints the pixel
\* that ends at the anchor.
WatermarkPixel(w, h, s) ==
    LET fontSize == RMul(RDiv(N(w), N(100)), s.watermarkSize)
        ax == RSub(N(w), fontSize)
        ay == RSub(N(h), fontSize)
        Cell(v) == IF v[2] = 1 THEN v[1] - 1 ELSE Floor(v)
    IN  IF RGt(ax, N(0)) /\ RGt(ay, N(0)) THEN {Cell(ay) * w + Cell(ax) + 1} ELSE {}

\* source-over of the text colour at globalAlpha = watermarkOpacity
Composite(c, over, a) == CanvasByte(RAdd(RMul(N(c), RSub(N(1), a)), RMul(N(over), a)))

WatermarkStage(px, w, h, s) ==
    IF WatermarkActive(s)
    THEN LET col == ColorOf(s.watermarkColor)
             a == CssAlpha(s.watermarkOpacity)
         IN  [i \in DOMAIN px |->
                IF i \in WatermarkPixel(w, h, s)
                THEN <<Composite(px[i][1], col[1], a), Composite(px[i][2], col[2], a),
                       Composite(px[i][3], col[3], a), px[i][4]>>
                ELSE px[i]]
    ELSE px

\* bufferCanvas.toDataURL('image/jpeg', 0.95): the canvas is flattened on
\* black and loses its alpha channel; the codec's quantisation is not
\* modelled.
toDataURL(px, w, h) ==
    [ type |-> "image/jpeg", width |-> w, height |-> h,
      rgb |-> [i \in DOMAIN px |->
                 <<(px[i][1] * px[i][4]) \div ChannelMax,
                   (px[i][2] * px[i][4]) \div ChannelMax,
                   (px[i][3] * px[i][4]) \div ChannelMax>>] ]

(***************************************************************************)
(* processImage as a function of its arguments                             *)
(***************************************************************************)
\* Every buffer of one run, stage by stage, for a decoded image.
Pipeline(image, preset, manual) ==
    LET s == EffectiveSettings(manual)
        w == image.w
        h == image.h
        canvas == ToneStage(image.px, preset, s)
        base == BaseFilterStage(canvas, preset, s)
        fine == fineBlurred(base, w, h)
        medium == mediumBlurred(base, w, h)
        fs == fsBlurred(base, w, h, preset)
        sharp == DetailStage(base, base, w, h, s)
        pass == PixelStage(sharp, fine, medium, fs, s)
        vig == VignetteStage(pass, w, h, s)
        over == OverlayStage(vig, s)
        mark == WatermarkStage(over, w, h, s)
    IN  [ canvas |-> canvas, base |-> base, fine |-> fine, medium |-> medium,
          fs |-> fs, sharp |-> sharp, pass |-> pass, vignette |-> vig,
          overlays |-> over, final |-> mark ]

\* The value the promise of processImage(imageSrc, preset, manualSettings)
\* resolves with when imageSrc decodes to `image`.
processImage(image, preset, manual) ==
    toDataURL(Pipeline(image, preset, manual).final, image.w, image.h)

(***************************************************************************)
(* Inputs of the model                                                     *)
(***************************************************************************)
NPixels == 3

Palette == {Px(200, 150, 100), Px(128, 128, 128), Px(12, 4, 0)}

Images == {[w |-> NPixels, h |-> 1, px |-> f] : f \in [1..NPixels -> Palette]}

\* A source that decodes, and one that does not.
Decodable(image) == [ok |-> TRUE, image |-> image]
Corrupt == [ok |-> FALSE, image |-> [w |-> 0, h |-> 0, px |-> <<>>]]

With(ms, f, v) == [ms EXCEPT ![f] = v]

\* The application's defaults with the signature text cleared.
Unsigned == With(DEFAULT_MANUAL_SETTINGS, "watermarkText", "")

\* One slider moved away from its default, inside or outside its range.
Moves ==
    { <<"exposure", Q(12, 10)>>, <<"exposure", Q(1, 2)>>, <<"exposure", N(3)>>,
      <<"whites", Q(3, 2)>>, <<"blacks", Q(1, 2)>>,
      <<"contrast", Q(3, 2)>>, <<"saturation", N(0)>>,
      <<"vibrance", N(2)>>, <<"vibrance", N(0)>>,
      <<"texture", N(1)>>, <<"texture", Q(-1, 2)>>, <<"texture", N(-1)>>,
      <<"clarity", N(1)>>,
      <<"dehaze", Q(1, 2)>>, <<"dehaze", N(-1)>>,
      <<"temp", N(50)>>, <<"tint", N(50)>>,
      <<"sharpness", N(1)>>, <<"sharpness", N(2)>>,
      <<"skinSoftening", Q(1, 2)>>, <<"skinSoftening", N(1)>>,
      <<"dodgeBurn", N(1)>>,
      <<"sharpenRadius", N(-1)>>, <<"sharpenDetail", N(100)>>,
      <<"highlights", N(2)>>,
      <<"vignette", Q(1, 2)>>, <<"vignette", N(1)>>,
      <<"whiteOverlay", N(1)>>, <<"blackOverlay", Q(1, 2)>>,
      <<"watermarkText", "Akins_studio">>, <<"watermarkOpacity", N(0)>> }

OneMove == {With(Unsigned, m[1], m[2]) : m \in Moves}

\* A section switched off, alone or with one of the sliders above.
SectionOff(ms, key) == With(ms, "disabledSections", ms.disabledSections \cup {key})

OneSectionOff == {SectionOff(Unsigned, key) : key \in SectionKeys}

SectionOffMoves ==
    { <<"basic", "exposure", Q(12, 10)>>, <<"basic", "contrast", Q(3, 2)>>,
      <<"basic", "texture", N(1)>>, <<"basic", "temp", N(50)>>,
      <<"detail", "sharpness", N(2)>>, <<"effects", "vignette", Q(1, 2)>>,
      <<"effects", "whiteOverlay", N(1)>>, <<"effects", "blackOverlay", Q(1, 2)>>,
      <<"retouch", "skinSoftening", N(1)>>, <<"retouch", "dodgeBurn", N(1)>>,
      <<"retouch", "texture", Q(-1, 2)>>,
      <<"watermark", "watermarkText", "Akins_studio">>,
      <<"grading", "tintShadows", "#ffffff">> }

SectionOffWithMove ==
    {SectionOff(With(Unsigned, m[2], m[3]), m[1]) : m \in SectionOffMoves}

\* Two sliders moved together.
TwoMoves ==
    { With(With(Unsigned, "texture", N(-1)), "skinSoftening", N(1)),
      With(With(Unsigned, "texture", Q(-1, 2)), "skinSoftening", Q(1, 2)),
      With(With(Unsigned, "texture", N(1)), "clarity", N(1)),
      With(With(Unsigned, "texture", N(1)), "vibrance", N(2)),
      With(With(Unsigned, "clarity", N(-1)), "vibrance", N(0)),
      With(With(Unsigned, "sharpness", N(2)), "sharpenRadius", N(-1)),
      With(With(Unsigned, "sharpness", N(2)), "sharpenDetail", N(100)),
      With(With(Unsigned, "skinSoftening", Q(1, 2)), "dodgeBurn", N(1)),
      With(With(Unsigned, "exposure", N(2)), "whites", N(2)),
      With(With(Unsigned, "vignette", N(1)), "blackOverlay", N(1)) }

\* A caller that passes only some of the fields.
Partial == {NoManual, [exposure |-> Q(12, 10)], [skinSoftening |-> Q(1, 2), dodgeBurn |-> Q(1, 2)]}

ManualChoices ==
    {DEFAULT_MANUAL_SETTINGS, Unsigned} \cup OneMove \cup OneSectionOff
        \cup SectionOffWithMove \cup TwoMoves \cup Partial

\* Presets: the catalogue entries above, and the plain preset with one
\* structured field set, among them radii outside their domain.
OneFieldPresets ==
    {WithField(PlainPreset, f, FieldValue(f)) : f \in StructuredFields}
        \cup {WithField(PlainPreset, f, OtherFieldValue(f)) : f \in {"colorBalance", "frequencySeparation"}}
        \cup { WithField(PlainPreset, "frequencySeparation", Some([radius |-> N(-3), intensity |-> N(1)])),
               WithField(PlainPreset, "frequencySeparation", Some([radius |-> N(0), intensity |-> N(1)])),
               WithField(PlainPreset, "aiSubjectOnly", Some(TRUE)) }

PresetChoices == {PlainPreset, StudioMasterPro, ProSharpen, NeuralBokehPro} \cup OneFieldPresets

\* Manual settings tried with every preset.
PresetManuals == {Unsigned, With(Unsigned, "skinSoftening", N(1))}

\* A segmentation result as aiEngine.segmentSubject returns it: one 0/1
\* entry per pixel.
Segmentations ==
    {[i \in 1..NPixels |-> 1], [i \in 1..NPixels |-> 0], [i \in 1..NPixels |-> i % 2]}

SubjectPreset == WithField(PlainPreset, "aiSubjectOnly", Some(TRUE))

Input(src, preset, manual, segmentation) ==
    [src |-> src, preset |-> preset, manual |-> manual, segmentation |-> segmentation]

\* Images and settings of the worked examples: a row whose first pixel is
\* skin-coloured and whose neighbours differ from it, a row of three greys,
\* a uniform row and a uniform square.
Row(px) == [w |-> NPixels, h |-> 1, px |-> px]

Uniform(p) == [i \in 1..NPixels |-> p]

SkinRow ==
    [i \in 1..NPixels |->
        CASE i = 1 -> Px(200, 150, 100) [] i = 2 -> Px(170, 135, 115) [] OTHER -> Px(168, 134, 116)]

GreyRow ==
    [i \in 1..NPixels |->
        CASE i = 1 -> Px(100, 100, 100) [] i = 2 -> Px(128, 128, 128) [] OTHER -> Px(255, 255, 255)]

Square(p) == [w |-> NPixels, h |-> NPixels, px |-> [i \in 1..(NPixels * NPixels) |-> p]]

\* Every slider of the tone stage moved at once.
ToneMoved ==
    [Unsigned EXCEPT !.temp = N(30), !.tint = N(-20), !.exposure = Q(12, 10),
                     !.whites = Q(11, 10), !.blacks = Q(9, 10), !.dehaze = Q(1, 2)]

\* A preset colour balance with the manual temp and tint that undo it, that
\* undo half of it, and that add to it.
BalancePreset == WithField(PlainPreset, "colorBalance", OtherFieldValue("colorBalance"))

BalanceManuals ==
    { [Unsigned EXCEPT !.temp = N(40), !.tint = N(-30)],
      [Unsigned EXCEPT !.temp = N(20), !.tint = N(-15)],
      [Unsigned EXCEPT !.temp = N(-10), !.tint = N(10)],
      [temp |-> N(40)] }

\* A bright pixel beside dark ones.
ContrastRow == [i \in 1..NPixels |-> IF i = 1 THEN Px(200, 150, 100) ELSE Px(12, 4, 0)]

\* The contrast row with a different alpha below 255 in every pixel.
TranslucentRow ==
    [i \in 1..NPixels |->
        <<ContrastRow[i][1], ContrastRow[i][2], ContrastRow[i][3], 64 * ((i - 1) % 3) + 32>>]

\* Settings under which the tone loop, the sharpening loop and the pixel
\* loop all change colour values.
LoopsMoved ==
    [ToneMoved EXCEPT !.sharpness = N(1), !.texture = N(1), !.skinSoftening = Q(1, 2)]

ExampleInputs ==
    {Input(Decodable(Row(ContrastRow)), PlainPreset, ms, Undefined) :
        ms \in { SectionOff(With(With(Unsigned, "texture", N(1)), "clarity", N(1)), "basic"),
                 SectionOff(With(With(Unsigned, "texture", Q(1, 2)), "clarity", Q(-1, 2)), "basic"),
                 SectionOff(With(Unsigned, "clarity", N(1)), "basic"),
                 SectionOff([Unsigned EXCEPT !.vignette = Q(1, 2), !.whiteOverlay = N(1),
                                             !.blackOverlay = Q(1, 2)], "effects"),
                 [Unsigned EXCEPT !.vignette = Q(1, 2), !.whiteOverlay = N(1),
                                  !.blackOverlay = Q(1, 2)] }} \cup
    {Input(Decodable(Row(SkinRow)), PlainPreset, ms, Undefined) :
        ms \in { With(Unsigned, "skinSoftening", Q(1, 2)),
                 With(With(Unsigned, "skinSoftening", Q(1, 2)), "dodgeBurn", Q(1, 2)),
                 SectionOff(With(Unsigned, "skinSoftening", Q(1, 2)), "retouch"),
                 With(With(Unsigned, "sharpness", N(1)), "sharpenRadius", Q(1, 2)),
                 With(With(Unsigned, "sharpness", Q(1, 2)), "sharpenRadius", N(3)) }}
        \cup {Input(Decodable(Row(Uniform(Px(100, 100, 100)))), PlainPreset, ms, Undefined) :
                ms \in {Unsigned, With(Unsigned, "dehaze", Q(1, 2)), With(Unsigned, "dehaze", N(1))}}
        \cup {Input(Decodable(Row(GreyRow)), PlainPreset, ms, Undefined) :
                ms \in { With(Unsigned, "vibrance", N(2)), With(Unsigned, "vibrance", N(0)),
                         With(Unsigned, "vibrance", Q(1, 2)),
                         With(With(Unsigned, "texture", N(1)), "vibrance", N(2)),
                         With(With(Unsigned, "clarity", N(1)), "vibrance", Q(3, 2)) }}
        \cup {Input(Decodable(Square(p)), PlainPreset, With(Unsigned, "vignette", v), Undefined) :
                p \in Palette, v \in {Q(1, 100), Q(1, 2), N(1)}}
        \cup {Input(Decodable(im), p, SectionOff(ms, "basic"), Undefined) :
                im \in {Row(SkinRow), Row(GreyRow)}, p \in {PlainPreset, StudioMasterPro},
                ms \in {Unsigned, ToneMoved}}
        \cup {Input(Decodable(im), BalancePreset, ms, Undefined) :
                im \in {Row(SkinRow), Row(GreyRow)}, ms \in BalanceManuals}
        \cup {Input(Decodable(Row(TranslucentRow)), PlainPreset, ms, Undefined) :
                ms \in {Unsigned, LoopsMoved}}

Inputs ==
    ExampleInputs \cup
    {Input(Decodable(im), PlainPreset, ms, Undefined) : im \in Images, ms \in ManualChoices}
        \cup {Input(Decodable(im), p, ms, Undefined) :
                im \in Images, p \in PresetChoices, ms \in PresetManuals}
        \cup {Input(Decodable(im), SubjectPreset, With(Unsigned, "skinSoftening", N(1)), Some(sg)) :
                im \in Images, sg \in Segmentations}
        \cup {Input(Corrupt, p, ms, Undefined) :
                p \in {PlainPreset, StudioMasterPro}, ms \in {DEFAULT_MANUAL_SETTINGS, NoManual}}

(***************************************************************************)
(* The state machine: calls of processImage on the page's single thread    *)
(***************************************************************************)
VARIABLES
    heap,     \* the Image objects created so far: id -> [src]
    runs,     \* one record per processImage call
    thread,   \* the call whose onload handler is executing, or 0
    app       \* the state of the App component (App.tsx) around the calls

vars == <<heap, runs, thread, app>>

\* The pipeline specifications run processImage outside any component.
NoApp == [component |-> "none"]

RunIds == {1, 2}

\* One Image object kept at module level and reused by every call.
sharedImage(h) == 1

\* `new Image()`: a fresh object for every call.
newImage(h) == Cardinality(DOMAIN h) + 1

NoHeap == [i \in {} |-> Corrupt]

\* A call the page is about to make, before processImage is entered.
Ready(input) ==
    [ pc |-> "ready", input |-> Some(input), img |-> 0, w |-> 0, h |-> 0,
      canvas |-> <<>>, buffer |-> <<>>, pixels |-> <<>>,
      fine |-> <<>>, medium |-> <<>>, fs |-> <<>>, steps |-> <<>>, subject |-> <<>>,
      promise |-> "none", result |-> Undefined ]

NoCall == [Ready(Corrupt) EXCEPT !.pc = "none", !.input = Undefined]

In(r) == The(runs[r].input)
Settings(r) == EffectiveSettings(In(r).manual)

\* Lines 8-11: the promise is created, the Image is created and given its
\* source; the decode proceeds off the thread.
Call(r) ==
    /\ thread = 0
    /\ runs[r].pc = "ready"
    /\ LET id == newImage(heap)
       IN  /\ heap' = (id :> [src |-> In(r).src]) @@ heap
           /\ runs' = [runs EXCEPT ![r].pc = "loading", ![r].img = id,
                                   ![r].promise = "pending"]
    /\ UNCHANGED <<thread, app>>

\* The image of the run's Image object decoded: onload starts, sizes the
\* canvas and draws the image (lines 13-21).
OnLoad(r) ==
    /\ thread = 0
    /\ runs[r].pc = "loading"
    /\ heap[runs[r].img].src.ok
    /\ LET image == heap[runs[r].img].src.image
       IN  runs' = [runs EXCEPT ![r].pc = "tone", ![r].w = image.w, ![r].h = image.h,
                                ![r].canvas = image.px]
    /\ thread' = r
    /\ UNCHANGED <<heap, app>>

\* The image failed to decode: the browser fires `error` on the Image.  No
\* onerror handler is installed and the executor holds no reject, so nothing
\* runs and the promise stays pending.
OnError(r) ==
    /\ thread = 0
    /\ runs[r].pc = "loading"
    /\ ~heap[runs[r].img].src.ok
    /\ runs' = [runs EXCEPT ![r].pc = "error"]
    /\ UNCHANGED <<heap, thread, app>>

\* Lines 41-73.
Tone(r) ==
    /\ thread = r
    /\ runs[r].pc = "tone"
    /\ runs' = [runs EXCEPT ![r].pc = "base",
                            ![r].canvas = ToneStage(runs[r].canvas, In(r).preset, Settings(r))]
    /\ UNCHANGED <<heap, thread, app>>

\* Lines 75-85: the filtered draw into bufferCanvas and the read of pixels.
BaseFilter(r) ==
    /\ thread = r
    /\ runs[r].pc = "base"
    /\ LET base == BaseFilterStage(runs[r].canvas, In(r).preset, Settings(r))
       IN  runs' = [runs EXCEPT ![r].pc = "blurs", ![r].buffer = base, ![r].pixels = base]
    /\ UNCHANGED <<heap, thread, app>>

\* The blurred copies drawn from the tone canvas instead of bufferCanvas.
BlursOfCanvas(r) ==
    /\ thread = r
    /\ runs[r].pc = "blurs"
    /\ runs' = [runs EXCEPT
                  ![r].pc = "detail",
                  ![r].fine = fineBlurred(runs[r].canvas, runs[r].w, runs[r].h),
                  ![r].medium = mediumBlurred(runs[r].canvas, runs[r].w, runs[r].h),
                  ![r].fs = fsBlurred(runs[r].canvas, runs[r].w, runs[r].h, In(r).preset)]
    /\ UNCHANGED <<heap, thread, app>>

\* Lines 87-105: the three blurred copies of bufferCanvas.
Blurs(r) ==
    /\ thread = r
    /\ runs[r].pc = "blurs"
    /\ runs' = [runs EXCEPT
                  ![r].pc = "detail",
                  ![r].fine = fineBlurred(runs[r].buffer, runs[r].w, runs[r].h),
                  ![r].medium = mediumBlurred(runs[r].buffer, runs[r].w, runs[r].h),
                  ![r].fs = fsBlurred(runs[r].buffer, runs[r].w, runs[r].h, In(r).preset)]
    /\ UNCHANGED <<heap, thread, app>>

\* Lines 107-122.
Detail(r) ==
    /\ thread = r
    /\ runs[r].pc = "detail"
    /\ runs' = [runs EXCEPT
                  ![r].pc = "pixels",
                  ![r].pixels = DetailStage(runs[r].pixels, runs[r].buffer,
                                            runs[r].w, runs[r].h, Settings(r))]
    /\ UNCHANGED <<heap, thread, app>>

\* Lines 124-171: the pixel loop and putImageData into bufferCanvas.
\* steps[i] records the values of r, g, b after each step of pixel i's
\* iteration, subject[i] whether the retouch step treated it as subject.
Pixels(r) ==
    /\ thread = r
    /\ runs[r].pc = "pixels"
    /\ LET s == Settings(r)
           out == PixelStage(runs[r].pixels, runs[r].fine, runs[r].medium, runs[r].fs, s)
           st == [i \in DOMAIN runs[r].pixels |->
                    PixelSteps(runs[r].pixels[i], runs[r].fine[i],
                               runs[r].medium[i], runs[r].fs[i], s)]
           sub == [i \in DOMAIN runs[r].pixels |-> RetouchSubject(st[i].vibrance, s)]
       IN  runs' = [runs EXCEPT ![r].pc = "vignette", ![r].pixels = out,
                                ![r].buffer = out, ![r].steps = st, ![r].subject = sub]
    /\ UNCHANGED <<heap, thread, app>>

\* Lines 175-181.
Vignette(r) ==
    /\ thread = r
    /\ runs[r].pc = "vignette"
    /\ runs' = [runs EXCEPT
                  ![r].pc = "overlays",
                  ![r].buffer = VignetteStage(runs[r].buffer, runs[r].w, runs[r].h, Settings(r))]
    /\ UNCHANGED <<heap, thread, app>>

\* Lines 183-197.
Overlays(r) ==
    /\ thread = r
    /\ runs[r].pc = "overlays"
    /\ runs' = [runs EXCEPT ![r].pc = "watermark",
                            ![r].buffer = OverlayStage(runs[r].buffer, Settings(r))]
    /\ UNCHANGED <<heap, thread, app>>

\* Lines 199-212.
Watermark(r) ==
    /\ thread = r
    /\ runs[r].pc = "watermark"
    /\ runs' = [runs EXCEPT
                  ![r].pc = "encode",
                  ![r].buffer = WatermarkStage(runs[r].buffer, runs[r].w, runs[r].h, Settings(r))]
    /\ UNCHANGED <<heap, thread, app>>

\* Line 214: the canvas is encoded and the promise resolved; onload returns.
Resolve(r) ==
    /\ thread = r
    /\ runs[r].pc = "encode"
    /\ runs' = [runs EXCEPT
                  ![r].pc = "resolved", ![r].promise = "resolved",
                  ![r].result = Some(toDataURL(runs[r].buffer, runs[r].w, runs[r].h))]
    /\ thread' = 0
    /\ UNCHANGED <<heap, app>>

\* One call of processImage.
Init ==
    /\ heap = NoHeap
    /\ thread = 0
    /\ app = NoApp
    /\ runs \in {[r \in RunIds |-> IF r = 1 THEN Ready(in) ELSE NoCall] : in \in Inputs}

Next ==
    \E r \in RunIds :
        \/ Call(r)
        \/ OnLoad(r)
        \/ OnError(r)
        \/ Tone(r)
        \/ BaseFilter(r)
        \/ Blurs(r)
        \/ Detail(r)
        \/ Pixels(r)
        \/ Vignette(r)
        \/ Overlays(r)
        \/ Watermark(r)
        \/ Resolve(r)

Spec == Init /\ [][Next]_vars

(***************************************************************************)
(* Two overlapping calls                                                   *)
(***************************************************************************)
ConcInputs ==
    { Input(Decodable([w |-> NPixels, h |-> 1, px |-> [i \in 1..NPixels |-> Px(200, 150, 100)]]),
            PlainPreset, With(Unsigned, "skinSoftening", N(1)), Undefined),
      Input(Decodable([w |-> NPixels, h |-> 1,
                       px |-> [i \in 1..NPixels |-> IF i = 1 THEN Px(12, 4, 0) ELSE Px(128, 128, 128)]]),
            StudioMasterPro, With(DEFAULT_MANUAL_SETTINGS, "sharpness", N(1)), Undefined),
      Input(Decodable([w |-> NPixels, h |-> 1,
                       px |-> [i \in 1..NPixels |-> IF i = 1 THEN Px(200, 150, 100) ELSE Px(12, 4, 0)]]),
            NeuralBokehPro, NoManual, Undefined),
      Input(Corrupt, PlainPreset, NoManual, Undefined) }

InitConc ==
    /\ heap = NoHeap
    /\ thread = 0
    /\ app = NoApp
    /\ runs \in {[r \in RunIds |-> Ready(IF r = 1 THEN a ELSE b)] : a \in ConcInputs, b \in ConcInputs}

SpecConc == InitConc /\ [][Next]_vars

(***************************************************************************)
(* Helpers of the properties                                               *)
(***************************************************************************)
Called(r) == runs[r].pc # "none"
Resolved(r) == runs[r].pc = "resolved"

\* The pixel loop of run r has run.
PixelsDone(r) == runs[r].pc \in {"vignette", "overlays", "watermark", "encode", "resolved"}

\* The canvas is complete: what toDataURL is given.
Complete(r) == runs[r].pc \in {"encode", "resolved"}

ImageOf(r) == In(r).src.image

\* The stages of run r recomputed from its arguments.
Stages(r) == Pipeline(ImageOf(r), In(r).preset, In(r).manual)

InRange(buf) == \A i \in DOMAIN buf : \A c \in 1..3 : buf[i][c] \in 0..ChannelMax

\* The unclamped channel values the pixel loop computed for pixel i.
PassValues(r, i) == runs[r].steps[i]

OutOfRange(x) == ~IsFinite(x) \/ RLt(x, N(0)) \/ RGt(x, N(ChannelMax))

ListedDefaults(r) ==
    LET s == Settings(r)
    IN  /\ s.exposure = N(1) /\ s.contrast = N(1) /\ s.saturation = N(1)
        /\ s.vibrance = N(1) /\ s.whites = N(1) /\ s.blacks = N(1)
        /\ s.temp = N(0) /\ s.tint = N(0) /\ s.texture = N(0) /\ s.clarity = N(0)
        /\ s.dehaze = N(0) /\ s.sharpness = N(0) /\ s.vignette = N(0)
        /\ s.whiteOverlay = N(0) /\ s.blackOverlay = N(0)
        /\ In(r).preset.filters = <<>>

BaseFilterOnly(r) == BaseFilterStage(ImageOf(r).px, In(r).preset, Settings(r))

C2_IdentityAsStated ==
    \A r \in RunIds :
        Complete(r) /\ ListedDefaults(r) => runs[r].buffer = BaseFilterOnly(r)

(***************************************************************************)
(* C2 (amended): the same, provided also that skinSoftening and dodgeBurn  *)
(* are 0 or the retouch section is disabled, that no watermark is drawn    *)
(* (empty text, opacity 0 or section disabled) and that the preset's       *)
(* colorBalance is absent or zero or the basic section is disabled.        *)
(***************************************************************************)
OtherStagesIdle(r) ==
    LET s == Settings(r)
    IN  /\ (s.skinSoftening = N(0) /\ s.dodgeBurn = N(0)) \/ Disabled(s, "retouch")
        /\ ~WatermarkActive(s)
        /\ (PresetTemp(In(r).preset) = N(0) /\ PresetTint(In(r).preset) = N(0))
              \/ Disabled(s, "basic")

C2_Identity ==
    \A r \in RunIds :
        Complete(r) /\ ListedDefaults(r) /\ OtherStagesIdle(r)
            => runs[r].buffer = BaseFilterOnly(r)

\* A completed run under the amended conditions whose image has a pixel the
\* retouch step classifies as skin and whose preset sets a blur radius.
C2_Witness ==
    \E r \in RunIds :
        /\ Complete(r) /\ ListedDefaults(r) /\ OtherStagesIdle(r)
        /\ In(r).manual # NoManual
        /\ In(r).preset.frequencySeparation # Undefined
        /\ \E i \in DOMAIN runs[r].subject : runs[r].subject[i]

(***************************************************************************)
(* C3: a run with disabledSections[key] = true produces the output of the  *)
(* run with that section enabled and the section's own parameters at their *)
(* no-op defaults, for each section key and any other parameters.          *)
(***************************************************************************)
\* The sliders and inputs each section of the Develop panel holds (App.tsx).
SectionParams(key) ==
    CASE key = "basic" ->
            {"temp", "tint", "exposure", "contrast", "highlights", "shadows", "whites",
             "blacks", "texture", "clarity", "dehaze", "vibrance", "saturation"}
      [] key = "detail" -> {"sharpness", "sharpenRadius", "sharpenDetail", "noiseReduction"}
      [] key = "grading" -> {"tintShadows", "tintHighlights"}
      [] key = "effects" -> {"vignette", "grain", "whiteOverlay", "blackOverlay"}
      [] key = "retouch" -> {"skinSoftening", "skinTone", "dodgeBurn"}
      [] key = "watermark" ->
            {"watermarkText", "watermarkOpacity", "watermarkSize", "watermarkColor"}

\* The no-op value of a field: the pipeline's own default where it reads the
\* field, the application's default otherwise.
NoOpValue(f) ==
    IF f \in DOMAIN EffectiveSettings(NoManual)
    THEN EffectiveSettings(NoManual)[f]
    ELSE DEFAULT_MANUAL_SETTINGS[f]

SectionAtDefaults(ms, key) ==
    [f \in DOMAIN ms |->
        IF f \in SectionParams(key) THEN NoOpValue(f)
        ELSE IF f = "disabledSections" THEN ms[f] \ {key}
        ELSE ms[f]]

C3_SectionDisable ==
    \A r \in RunIds :
        Resolved(r) =>
            \A key \in SectionKeys \cap Settings(r).disabledSections :
                runs[r].result =
                    Some(processImage(ImageOf(r), In(r).preset,
                                      SectionAtDefaults(In(r).manual, key)))

(***************************************************************************)
(* C4: when the source image cannot be decoded, the call's promise settles *)
(* with a failure reported to the caller and no output image is produced.  *)
(***************************************************************************)
C4_DecodeFailureReported ==
    \A r \in RunIds :
        runs[r].pc = "error" =>
            runs[r].promise = "rejected" /\ runs[r].result = Undefined

(***************************************************************************)
(* C5: whatever the interleaving of two calls, each call resolves with the *)
(* output of the same call made alone.                                     *)
(***************************************************************************)
C5_RunsIndependent ==
    \A r \in RunIds :
        Resolved(r) =>
            runs[r].result = Some(processImage(In(r).src.image, In(r).preset, In(r).manual))

\* The second call was made first, both were in flight together, and the
\* first has resolved while the second still waits for its image.
C5_Witness ==
    /\ runs[2].img = 1 /\ runs[1].img = 2
    /\ Resolved(1) /\ runs[2].pc = "loading"
    /\ In(1) # In(2)

(***************************************************************************)
(* C6: a run given DEFAULT_MANUAL_SETTINGS produces the same pixels as a   *)
(* run given no manual settings: every default is a no-op.                 *)
(***************************************************************************)
C6_DefaultsAreNoOps ==
    \A r \in RunIds :
        Resolved(r) /\ In(r).manual = DEFAULT_MANUAL_SETTINGS =>
            runs[r].result = Some(processImage(ImageOf(r), In(r).preset, NoManual))

(***************************************************************************)
(* C7: with manual settings present, each of the preset's tonalRange,      *)
(* toneCurve, frequencySeparation, colorBalance, glow and overlay is       *)
(* consulted: for each there are inputs on which changing only that field  *)
(* changes the output.                                                     *)
(***************************************************************************)
FieldValues(f) == {Undefined, FieldValue(f), OtherFieldValue(f)}

C7_StructuredFieldsConsulted ==
    (\E r \in RunIds : Resolved(r) /\ In(r).manual # NoManual) =>
    \A f \in StructuredFields :
        \E im \in Images, ms \in PresetManuals \cup {DEFAULT_MANUAL_SETTINGS},
           p \in {PlainPreset, StudioMasterPro, NeuralBokehPro} :
            \E v \in FieldValues(f) :
                processImage(im, WithField(p, f, v), ms) # processImage(im, p, ms)

(***************************************************************************)
(* C8: when an external subject mask is supplied and the preset's          *)
(* aiSubjectOnly flag is set, the retouch step treats a pixel as subject   *)
(* exactly when the mask marks it; otherwise it applies the colour         *)
(* heuristic.                                                              *)
(***************************************************************************)
\* aiEngine.createMask: an RGBA mask, 255 in every channel of a subject
\* pixel and 0 elsewhere.
createMask(segmentation, width, height) ==
    [i \in 1..(width * height) |->
        IF i \in DOMAIN segmentation /\ segmentation[i] = 1
        THEN <<255, 255, 255, 255>>
        ELSE <<0, 0, 0, 0>>]

MaskMarks(mask, i) == mask[i][4] = ChannelMax

MaskInForce(r) ==
    In(r).segmentation # Undefined /\ In(r).preset.aiSubjectOnly = Some(TRUE)

C8_MaskReplacesHeuristic ==
    \A r \in RunIds :
        PixelsDone(r) /\ ~Disabled(Settings(r), "retouch") =>
            \A i \in DOMAIN runs[r].subject :
                runs[r].subject[i] =
                    IF MaskInForce(r)
                    THEN MaskMarks(createMask(The(In(r).segmentation), runs[r].w, runs[r].h), i)
                    ELSE isSkin(PassValues(r, i).vibrance)

(***************************************************************************)
(* C9: a numeric setting outside its documented domain (a negative         *)
(* sharpenRadius or frequency-separation radius, an exposure above 2) is   *)
(* used clamped into the domain, and the call completes with an output.    *)
(***************************************************************************)
\* The documented ranges of ManualSettings (data/presets.ts).
Domains ==
    [ exposure |-> <<N(0), N(2)>>, contrast |-> <<N(0), N(2)>>,
      saturation |-> <<N(0), N(2)>>, sharpness |-> <<N(0), N(2)>>,
      highlights |-> <<N(0), N(2)>>, shadows |-> <<N(0), N(2)>>,
      whites |-> <<N(0), N(2)>>, blacks |-> <<N(0), N(2)>>,
      texture |-> <<N(-1), N(1)>>, clarity |-> <<N(-1), N(1)>>, dehaze |-> <<N(-1), N(1)>>,
      temp |-> <<N(-50), N(50)>>, tint |-> <<N(-50), N(50)>>,
      whiteOverlay |-> <<N(0), N(1)>>, blackOverlay |-> <<N(0), N(1)>>,
      skinSoftening |-> <<N(0), N(1)>>, vibrance |-> <<N(0), N(2)>>,
      dodgeBurn |-> <<N(0), N(1)>>, sharpenRadius |-> <<Q(1, 2), N(3)>>,
      sharpenDetail |-> <<N(0), N(100)>>, vignette |-> <<N(0), N(1)>> ]

InDomain(f, v) == f \notin DOMAIN Domains \/ (RLe(Domains[f][1], v) /\ RLe(v, Domains[f][2]))

Clamped(f, v) ==
    IF f \notin DOMAIN Domains THEN v
    ELSE MathMax(Domains[f][1], MathMin(Domains[f][2], v))

ClampedManual(ms) == [f \in DOMAIN ms |-> Clamped(f, ms[f])]

\* A blur radius is a non-negative length.
ClampedPreset(p) ==
    IF p.frequencySeparation = Undefined THEN p
    ELSE [p EXCEPT !.frequencySeparation =
             Some([The(p.frequencySeparation) EXCEPT
                     !.radius = MathMax(N(0), The(p.frequencySeparation).radius)])]

C9_OutOfDomainClamped ==
    \A r \in RunIds :
        Resolved(r) =>
            runs[r].result =
                Some(processImage(ImageOf(r), ClampedPreset(In(r).preset),
                                  ClampedManual(In(r).manual)))

(***************************************************************************)
(* C10 (as stated): for skinSoftening in [0,1] and texture in [-1,1] the   *)
(* retouch blend factor (skinSoftening*0.6 + max(0,-texture))*0.8 lies in  *)
(* [0,1], so every blended channel of a skin pixel lies between its own    *)
(* value and the frequency-separation blurred value.                       *)
(***************************************************************************)
BlendInputsInDomain(s) ==
    /\ InDomain("skinSoftening", s.skinSoftening)
    /\ InDomain("texture", s.texture)

Between(x, a, b) == RLe(MathMin(a, b), x) /\ RLe(x, MathMax(a, b))

\* Every blended channel of every subject pixel of run r lies between the
\* channel's own value and the blurred one.
BlendStaysBetween(r) ==
    \A i \in DOMAIN runs[r].subject :
        runs[r].subject[i] =>
            \A c \in 1..3 :
                Between(BlendChannel(PassValues(r, i).vibrance[c], runs[r].fs[i][c],
                                     blend(Settings(r))),
                        PassValues(r, i).vibrance[c], N(runs[r].fs[i][c]))

C10_BlendInUnitIntervalAsStated ==
    \A r \in RunIds :
        PixelsDone(r) /\ BlendInputsInDomain(Settings(r)) =>
            /\ RLe(N(0), blend(Settings(r))) /\ RLe(blend(Settings(r)), N(1))
            /\ BlendStaysBetween(r)

(***************************************************************************)
(* C10 (amended): for skinSoftening in [0,1] and texture in [-1,1] the     *)
(* blend factor lies in [0, 1.28]; whenever skinSoftening*0.6 +            *)
(* max(0,-texture) <= 1.25 it lies in [0,1], and every blended channel of  *)
(* a skin pixel then lies between its own value and the blurred value.     *)
(***************************************************************************)
BlendSum(s) ==
    RAdd(RMul(s.skinSoftening, Q(6, 10)), MathMax(N(0), RNeg(s.texture)))

C10_BlendRange ==
    \A r \in RunIds :
        PixelsDone(r) /\ BlendInputsInDomain(Settings(r)) =>
            /\ RLe(N(0), blend(Settings(r))) /\ RLe(blend(Settings(r)), Q(128, 100))
            /\ RLe(BlendSum(Settings(r)), Q(125, 100)) =>
                  /\ RLe(blend(Settings(r)), N(1))
                  /\ BlendStaysBetween(r)

\* A run that blended a skin pixel with a factor strictly inside (0,1)
\* toward a blurred value different from the pixel's own.
C10_Witness ==
    \E r \in RunIds :
        /\ PixelsDone(r) /\ BlendInputsInDomain(Settings(r))
        /\ RLt(N(0), blend(Settings(r))) /\ RLt(blend(Settings(r)), N(1))
        /\ \E i \in DOMAIN runs[r].subject :
              /\ runs[r].subject[i]
              /\ N(runs[r].fs[i][1]) # PassValues(r, i).vibrance[1]

(***************************************************************************)
(* C11: the temperature and the tint ToneStage applies are the sums of the  *)
(* preset's colorBalance value and the manual value, a missing one counting *)
(* as 0: each stored channel is the tone of r + t/2 + tn/4, g - tn/2,       *)
(* b - t/2 + tn/4 for those sums t and tn, and when both sums are 0 the     *)
(* white balance leaves the pixel as it was.                                *)
(***************************************************************************)
\* The canvas of run r has been through the tone stage.
ToneDone(r) == runs[r].pc \notin {"none", "ready", "loading", "error", "tone"}

PresetBalance(r, f) ==
    IF In(r).preset.colorBalance = Undefined THEN N(0) ELSE The(In(r).preset.colorBalance)[f]

ManualBalance(r, f) == IF f \in DOMAIN In(r).manual THEN In(r).manual[f] ELSE N(0)

Balanced(p, t, tn) ==
    << RAdd(RAdd(N(p[1]), RMul(t, Q(1, 2))), RMul(tn, Q(1, 4))),
       RSub(N(p[2]), RMul(tn, Q(1, 2))),
       RAdd(RSub(N(p[3]), RMul(t, Q(1, 2))), RMul(tn, Q(1, 4))) >>

Toned(v, s) == ToUint8Clamp(Clamp255(ToneChannel(v, s)))

C11_WhiteBalanceSummed ==
    \A r \in RunIds :
        ToneDone(r) /\ ~Disabled(Settings(r), "basic") =>
            LET t == RAdd(PresetBalance(r, "temp"), ManualBalance(r, "temp"))
                tn == RAdd(PresetBalance(r, "tint"), ManualBalance(r, "tint"))
            IN  \A i \in DOMAIN runs[r].canvas :
                    LET p == ImageOf(r).px[i]
                        wb == Balanced(p, t, tn)
                    IN  /\ \A c \in 1..3 : runs[r].canvas[i][c] = Toned(wb[c], Settings(r))
                        /\ t = N(0) /\ tn = N(0) =>
                              \A c \in 1..3 : runs[r].canvas[i][c] = Toned(N(p[c]), Settings(r))

\* A run whose preset and manual values are non-zero and cancel, on an image
\* that the preset's balance alone would have changed.
C11_Witness ==
    \E r \in RunIds :
        /\ ToneDone(r) /\ ~Disabled(Settings(r), "basic")
        /\ PresetBalance(r, "temp") # N(0) /\ PresetBalance(r, "tint") # N(0)
        /\ RAdd(PresetBalance(r, "temp"), ManualBalance(r, "temp")) = N(0)
        /\ RAdd(PresetBalance(r, "tint"), ManualBalance(r, "tint")) = N(0)
        /\ runs[r].canvas = ImageOf(r).px
        /\ ToneStage(ImageOf(r).px, In(r).preset, EffectiveSettings(Unsigned)) # ImageOf(r).px

(***************************************************************************)
(* C12: the vibrance step leaves a pixel whose r, g and b are equal when    *)
(* the step is reached unchanged, whatever the vibrance value.              *)
(***************************************************************************)
Grey(v) == v[1] = v[2] /\ v[2] = v[3]

C12_GreyUnchangedByVibrance ==
    \A r \in RunIds :
        PixelsDone(r) =>
            \A i \in DOMAIN runs[r].steps :
                Grey(PassValues(r, i).presence) =>
                    PassValues(r, i).vibrance = PassValues(r, i).presence

\* A run with vibrance away from 1 in which the step met a grey pixel whose
\* value is not a whole number, and a second grey pixel of another value.
C12_Witness ==
    \E r \in RunIds :
        /\ PixelsDone(r)
        /\ Settings(r).vibrance # N(1)
        /\ \E i, j \in DOMAIN runs[r].steps :
              /\ Grey(PassValues(r, i).presence) /\ Grey(PassValues(r, j).presence)
              /\ PassValues(r, i).presence[1][2] # 1
              /\ PassValues(r, i).presence # PassValues(r, j).presence

(***************************************************************************)
(* C13: for a vignette intensity > 0 and two pixels of equal value, both    *)
(* beyond the gradient's transparent stop at 40% of its radius, the pixel   *)
(* farther from the centre is darkened strictly more.                       *)
(***************************************************************************)
\* The vignette block of run r has just run: pixels is the buffer before it,
\* buffer the canvas after it.
JustVignetted(r) == runs[r].pc = "overlays"

Offset(r, i) == GradientOffset(runs[r].w, runs[r].h, i)

BeyondThreshold(r, i) == RGt(Offset(r, i), Q(4, 10))

\* What the vignette took from pixel i, summed over its three channels.
Darkening(r, i) ==
    (runs[r].pixels[i][1] - runs[r].buffer[i][1])
        + (runs[r].pixels[i][2] - runs[r].buffer[i][2])
        + (runs[r].pixels[i][3] - runs[r].buffer[i][3])

\* Pixel j lies farther out than pixel i, both beyond the stop, same value.
Farther(r, i, j) ==
    /\ runs[r].pixels[i] = runs[r].pixels[j]
    /\ BeyondThreshold(r, i) /\ BeyondThreshold(r, j)
    /\ RLt(Offset(r, i), Offset(r, j))

C13_StrictlyDarkerAsStated ==
    \A r \in RunIds :
        JustVignetted(r) /\ RGt(Settings(r).vignette, N(0)) =>
            \A i, j \in DOMAIN runs[r].buffer :
                Farther(r, i, j) => Darkening(r, j) > Darkening(r, i)

\* C13, amended: the gradient's alpha is strictly greater at the farther
\* pixel, and the farther pixel is darkened at least as much: none of its
\* channels ends above the nearer pixel's.
C13_VignetteMonotone ==
    \A r \in RunIds :
        JustVignetted(r) /\ RGt(Settings(r).vignette, N(0)) =>
            \A i, j \in DOMAIN runs[r].buffer :
                Farther(r, i, j) =>
                    /\ RLt(VignetteAlpha(Offset(r, i), Settings(r).vignette),
                           VignetteAlpha(Offset(r, j), Settings(r).vignette))
                    /\ \A c \in 1..3 : runs[r].buffer[j][c] <= runs[r].buffer[i][c]
                    /\ Darkening(r, j) >= Darkening(r, i)

\* A vignetted image with two equal pixels beyond the stop, the farther one
\* darkened more than the nearer one, which is itself darkened.
C13_Witness ==
    \E r \in RunIds :
        /\ JustVignetted(r) /\ RGt(Settings(r).vignette, N(0))
        /\ \E i, j \in DOMAIN runs[r].buffer :
              /\ Farther(r, i, j)
              /\ Darkening(r, i) > 0
              /\ Darkening(r, j) > Darkening(r, i)

(***************************************************************************)
(* C14: for a skin-classified pixel with dodgeBurn = 0 the retouch step     *)
(* sets each channel c to c*(1 - blend) + fsBlur*blend, with                *)
(* blend = (skinSoftening*0.6 + max(0, -texture))*0.8; for the pixel        *)
(* (200,150,100), skinSoftening 0.5, texture 0 and the blurred pixel        *)
(* (180,140,110), blend is 0.24 and red becomes 195.2 before it is stored.  *)
(***************************************************************************)
BlendFactor(s) ==
    RMul(RAdd(RMul(s.skinSoftening, Q(6, 10)), MathMax(N(0), RNeg(s.texture))), Q(8, 10))

\* Pixel i of run r is the pixel of the worked example.
SkinExample(r, i) ==
    /\ PassValues(r, i).vibrance = <<N(200), N(150), N(100)>>
    /\ runs[r].fs[i] = Px(180, 140, 110)
    /\ Settings(r).skinSoftening = Q(1, 2)
    /\ Settings(r).texture = N(0)

C14_RetouchBlend ==
    \A r \in RunIds :
        PixelsDone(r) /\ ~Disabled(Settings(r), "retouch") /\ ~RGt(Settings(r).dodgeBurn, N(0)) =>
            \A i \in DOMAIN runs[r].steps :
                LET v == PassValues(r, i).vibrance
                    k == BlendFactor(Settings(r))
                IN  isSkin(v) =>
                        /\ \A c \in 1..3 :
                              PassValues(r, i).retouch[c]
                                  = RAdd(RMul(v[c], RSub(N(1), k)), RMul(N(runs[r].fs[i][c]), k))
                        /\ SkinExample(r, i) =>
                              /\ k = Q(24, 100)
                              /\ PassValues(r, i).retouch[1] = Q(1952, 10)
                              /\ runs[r].pixels[i][1] = 195

\* The worked example has been through the retouch step.
C14_Witness ==
    \E r \in RunIds :
        /\ PixelsDone(r) /\ ~Disabled(Settings(r), "retouch")
        /\ ~RGt(Settings(r).dodgeBurn, N(0))
        /\ \E i \in DOMAIN runs[r].steps :
              /\ SkinExample(r, i)
              /\ isSkin(PassValues(r, i).vibrance)
              /\ PassValues(r, i).retouch[1] = Q(1952, 10)

(***************************************************************************)
(* C15: ToneStage maps each channel value c, taken after white balance,     *)
(* exposure and whites, and blacks, to (c - 128)*(1 + 0.3*d) + 128 + 15*d   *)
(* clamped to [0,255], d being dehaze; the pixel (100,100,100) with d = 0.5 *)
(* and all else default gives 103.3 per channel before it is stored, and    *)
(* with d = 0 the step changes nothing.                                     *)
(***************************************************************************)
Dehazed(c, d) ==
    RAdd(RAdd(RMul(RSub(c, N(128)), RAdd(N(1), RMul(Q(3, 10), d))), N(128)), RMul(N(15), d))

\* c after exposure, whites and blacks.
BeforeDehaze(c, s) ==
    RAdd(RMul(RMul(c, s.exposure), s.whites), RMul(RSub(s.blacks, N(1)), N(50)))

\* The white-balanced channels of pixel i of the image of run r.
WhiteBalanced(r, i) ==
    Balanced(ImageOf(r).px[i],
             RAdd(PresetBalance(r, "temp"), ManualBalance(r, "temp")),
             RAdd(PresetBalance(r, "tint"), ManualBalance(r, "tint")))

\* Pixel i of run r is the pixel of the worked example.
DehazeExample(r, i) ==
    /\ ImageOf(r).px[i] = Px(100, 100, 100)
    /\ Settings(r).dehaze = Q(1, 2)
    /\ Settings(r).exposure = N(1) /\ Settings(r).whites = N(1) /\ Settings(r).blacks = N(1)
    /\ WhiteBalanced(r, i) = <<N(100), N(100), N(100)>>

C15_Dehaze ==
    \A r \in RunIds :
        ToneDone(r) /\ ~Disabled(Settings(r), "basic") =>
            \A i \in DOMAIN runs[r].canvas :
                LET s == Settings(r)
                    wb == WhiteBalanced(r, i)
                IN  /\ \A c \in 1..3 :
                          /\ runs[r].canvas[i][c]
                                = ToUint8Clamp(Clamp255(Dehazed(BeforeDehaze(wb[c], s), s.dehaze)))
                          /\ s.dehaze = N(0) =>
                                runs[r].canvas[i][c] = ToUint8Clamp(Clamp255(BeforeDehaze(wb[c], s)))
                    /\ DehazeExample(r, i) =>
                          /\ ToneValues(ImageOf(r).px[i], In(r).preset, s)
                                = <<Q(1033, 10), Q(1033, 10), Q(1033, 10)>>
                          /\ runs[r].canvas[i] = Px(103, 103, 103)

\* The worked example has been through ToneStage.
C15_Witness ==
    \E r \in RunIds :
        /\ ToneDone(r) /\ ~Disabled(Settings(r), "basic")
        /\ \E i \in DOMAIN runs[r].canvas :
              DehazeExample(r, i) /\ runs[r].canvas[i] = Px(103, 103, 103)

(***************************************************************************)
(* C16: the retouch step leaves every pixel that fails the skin test        *)
(* (r > 95, g > 40, b > 20, r > g, r > b, |r - g| > 15) unchanged, whatever *)
(* skinSoftening, texture and dodgeBurn are; only pixels that pass the test *)
(* are blended toward the blurred buffer or scaled by dodge/burn.           *)
(***************************************************************************)
PassesSkinTest(v) ==
    /\ RLt(N(95), v[1]) /\ RLt(N(40), v[2]) /\ RLt(N(20), v[3])
    /\ RLt(v[2], v[1]) /\ RLt(v[3], v[1])
    /\ RLt(N(15), RSub(v[1], v[2])) \/ RLt(N(15), RSub(v[2], v[1]))

C16_NonSkinUntouched ==
    \A r \in RunIds :
        PixelsDone(r) =>
            \A i \in DOMAIN runs[r].steps :
                LET v == PassValues(r, i).vibrance
                IN  /\ ~PassesSkinTest(v) => PassValues(r, i).retouch = v
                    /\ PassValues(r, i).retouch # v =>
                          PassesSkinTest(v) /\ ~Disabled(Settings(r), "retouch")

\* A run with the retouch sliders up in which a skin pixel was changed and
\* a pixel that fails the test, whose blurred value differs from its own,
\* was not.
C16_Witness ==
    \E r \in RunIds :
        /\ PixelsDone(r) /\ ~Disabled(Settings(r), "retouch")
        /\ RGt(Settings(r).skinSoftening, N(0))
        /\ \E i, j \in DOMAIN runs[r].steps :
              /\ ~PassesSkinTest(PassValues(r, i).vibrance)
              /\ N(runs[r].fs[i][1]) # PassValues(r, i).vibrance[1]
              /\ PassValues(r, i).retouch = PassValues(r, i).vibrance
              /\ PassesSkinTest(PassValues(r, j).vibrance)
              /\ PassValues(r, j).retouch # PassValues(r, j).vibrance

(***************************************************************************)
(* C17: when disabledSections.basic is true ToneStage changes no pixel: the *)
(* canvas the base filter is given equals the decoded image, whatever temp, *)
(* tint, exposure, whites, blacks, dehaze and the preset's colorBalance are.*)
(***************************************************************************)
C17_BasicOffSkipsTone ==
    \A r \in RunIds :
        ToneDone(r) /\ Disabled(Settings(r), "basic") =>
            runs[r].canvas = ImageOf(r).px

\* A run with the basic section off, every tone slider moved and a preset
\* colour balance, whose canvas is still the decoded image.
C17_Witness ==
    \E r \in RunIds :
        /\ ToneDone(r) /\ Disabled(Settings(r), "basic")
        /\ Settings(r).temp # N(0) /\ Settings(r).tint # N(0)
        /\ Settings(r).exposure # N(1) /\ Settings(r).whites # N(1)
        /\ Settings(r).blacks # N(1) /\ Settings(r).dehaze # N(0)
        /\ PresetBalance(r, "temp") # N(0)
        /\ runs[r].canvas = ImageOf(r).px
        /\ \A i \in DOMAIN runs[r].canvas :
              TonePixel(ImageOf(r).px[i], In(r).preset, Settings(r)) # ImageOf(r).px[i]

(***************************************************************************)
(* C18: texture and clarity are applied to every pixel whenever their value *)
(* is non-zero, also when disabledSections.basic is true: the pixel loop    *)
(* takes each channel c to t = c + (c - fine)*texture*0.8 when texture # 0, *)
(* and then to t + (t - medium)*clarity*0.5 when clarity # 0, with no clamp *)
(* between the two.                                                         *)
(***************************************************************************)
TextureBoosted(c, fine, s) ==
    IF s.texture # N(0)
    THEN RAdd(N(c), RMul(RMul(RSub(N(c), N(fine)), s.texture), Q(8, 10)))
    ELSE N(c)

ClarityBoosted(t, medium, s) ==
    IF s.clarity # N(0)
    THEN RAdd(t, RMul(RMul(RSub(t, N(medium)), s.clarity), Q(1, 2)))
    ELSE t

C18_PresenceAlwaysApplied ==
    [][\A r \in RunIds :
          Pixels(r) =>
              \A i \in DOMAIN runs[r].pixels : \A c \in 1..3 :
                  runs'[r].steps[i].presence[c]
                      = ClarityBoosted(TextureBoosted(runs[r].pixels[i][c], runs[r].fine[i][c],
                                                      Settings(r)),
                                       runs[r].medium[i][c], Settings(r))]_vars

\* A run with the basic section off and both sliders away from 0, through
\* the pixel loop, in which the texture-boosted red of a pixel left [0,255]
\* and clarity was computed on that value.
C18_Witness ==
    \E r \in RunIds :
        /\ PixelsDone(r) /\ Disabled(Settings(r), "basic")
        /\ Settings(r).texture # N(0) /\ Settings(r).clarity # N(0)
        /\ ~DetailActive(Settings(r))
        /\ FilterRecipe(In(r).preset, Settings(r)) = << <<"contrast", N(1)>>, <<"saturate", N(1)>> >>
        /\ \E i \in DOMAIN runs[r].steps :
              LET t == TextureBoosted(ImageOf(r).px[i][1], runs[r].fine[i][1], Settings(r))
              IN  /\ RGt(t, N(ChannelMax))
                  /\ PassValues(r, i).presence[1] = ClarityBoosted(t, runs[r].medium[i][1], Settings(r))
                  /\ PassValues(r, i).presence[1] # t

(***************************************************************************)
(* C19: DetailStage changes the working pixels only when                    *)
(* disabledSections.detail is not set and sharpness > 0; then each R, G, B  *)
(* value p becomes p + (p - b)*sharpness*(0.5 + sharpenDetail/50) clamped   *)
(* to [0,255], b being the same channel of the post-base-filter buffer      *)
(* blurred at sharpenRadius (a radius the canvas accepts, that is >= 0);    *)
(* otherwise the pixels are left as they were.                              *)
(***************************************************************************)
SharpenAmount(s) == RMul(s.sharpness, RAdd(Q(1, 2), RDiv(s.sharpenDetail, N(50))))

Sharpens(s) == "detail" \notin s.disabledSections /\ RLt(N(0), s.sharpness)

C19_DetailStage ==
    [][\A r \in RunIds :
          Detail(r) =>
              LET s == Settings(r)
                  b == Blur(runs[r].buffer, runs[r].w, runs[r].h, s.sharpenRadius)
              IN  /\ Sharpens(s) /\ RLe(N(0), s.sharpenRadius) =>
                        \A i \in DOMAIN runs[r].pixels : \A c \in 1..3 :
                            runs'[r].pixels[i][c]
                                = ToUint8Clamp(RAdd(N(runs[r].pixels[i][c]),
                                                    RMul(RSub(N(runs[r].pixels[i][c]), N(b[i][c])),
                                                         SharpenAmount(s))))
                  /\ ~Sharpens(s) => runs'[r].pixels = runs[r].pixels
                  /\ runs'[r].buffer = runs[r].buffer]_vars

\* A run just through DetailStage with sharpness up and a radius above its
\* default, whose pixels differ from the post-base-filter buffer, the red
\* of one pixel having risen.
C19_Witness ==
    \E r \in RunIds :
        /\ runs[r].pc = "pixels"
        /\ Sharpens(Settings(r))
        /\ RLt(N(1), Settings(r).sharpenRadius)
        /\ runs[r].pixels # runs[r].buffer
        /\ \E i \in DOMAIN runs[r].pixels :
              runs[r].pixels[i][1] > runs[r].buffer[i][1]

(***************************************************************************)
(* C20: the vignette is composited whenever vignette > 0, also when         *)
(* disabledSections.effects is true; the white and the black overlay are    *)
(* composited only when disabledSections.effects is not true and their own  *)
(* value is > 0.                                                            *)
(***************************************************************************)
\* The radial gradient at intensity v drawn over px.
GradientOver(px, w, h, v) ==
    [i \in DOMAIN px |->
        LET a == VignetteAlpha(GradientOffset(w, h, i), v)
        IN  <<Darken(px[i][1], a), Darken(px[i][2], a), Darken(px[i][3], a), px[i][4]>>]

EffectsOn(s) == "effects" \notin s.disabledSections

C20_EffectsGates ==
    [][\A r \in RunIds :
          LET s == Settings(r)
          IN  /\ Vignette(r) =>
                    runs'[r].buffer
                        = IF RLt(N(0), s.vignette)
                          THEN GradientOver(runs[r].buffer, runs[r].w, runs[r].h, s.vignette)
                          ELSE runs[r].buffer
              /\ Overlays(r) =>
                    /\ runs'[r].buffer
                          = IF EffectsOn(s)
                            THEN BlackOverlayStage(WhiteOverlayStage(runs[r].buffer, s), s)
                            ELSE runs[r].buffer
                    /\ runs'[r].buffer # runs[r].buffer =>
                          /\ EffectsOn(s)
                          /\ RLt(N(0), s.whiteOverlay) \/ RLt(N(0), s.blackOverlay)]_vars

\* A run with the effects section off and the vignette and both overlays up,
\* past the overlay block: the vignette has darkened the canvas and the
\* overlays have left it alone.
C20_Witness ==
    \E r \in RunIds :
        /\ runs[r].pc = "watermark"
        /\ ~EffectsOn(Settings(r))
        /\ RLt(N(0), Settings(r).vignette)
        /\ RLt(N(0), Settings(r).whiteOverlay) /\ RLt(N(0), Settings(r).blackOverlay)
        /\ runs[r].buffer # runs[r].pixels
        /\ runs[r].buffer
              = GradientOver(runs[r].pixels, runs[r].w, runs[r].h, Settings(r).vignette)
        /\ BlackOverlayStage(WhiteOverlayStage(runs[r].buffer, Settings(r)), Settings(r))
              # runs[r].buffer

(***************************************************************************)
(* C21: in every run the 2px, 12px and frequency-separation blurred buffers *)
(* are blurs of the base filter's output, made after ToneStage and the base *)
(* filter and before DetailStage, and no later stage writes to them: the    *)
(* blur step, taken while the working pixels are still the base output,     *)
(* sets them to those blurs, no step before it sets them and no step after  *)
(* it changes them.                                                         *)
(***************************************************************************)
BlursDone(r) ==
    runs[r].pc \in {"detail", "pixels", "vignette", "overlays", "watermark", "encode", "resolved"}

\* The base filter's output, recomputed from the tone canvas.
BaseOutput(r) == BaseFilterStage(runs[r].canvas, In(r).preset, Settings(r))

BlurredBuffers(run) == <<run.fine, run.medium, run.fs>>

\* The step of run r that makes the blurred buffers.
BlurStep(r) == runs[r].pc = "blurs" /\ runs'[r].pc = "detail"

C21_BlurredBuffersFromBase ==
    [][\A r \in RunIds :
          /\ BlurStep(r) =>
                /\ runs[r].pixels = BaseOutput(r)
                /\ runs'[r].fine = Blur(BaseOutput(r), runs[r].w, runs[r].h, N(FineRadius))
                /\ runs'[r].medium = Blur(BaseOutput(r), runs[r].w, runs[r].h, N(MediumRadius))
                /\ runs'[r].fs = fsBlurred(BaseOutput(r), runs[r].w, runs[r].h, In(r).preset)
          /\ BlursDone(r) => BlurredBuffers(runs'[r]) = BlurredBuffers(runs[r])
          /\ ~BlursDone(r) /\ ~BlurStep(r) =>
                BlurredBuffers(runs'[r]) = <<<<>>, <<>>, <<>>>>]_vars

\* A run past the pixel loop whose working pixels are no longer the base
\* filter's output and whose base filter changed the tone canvas: a blur of
\* either would differ from the buffers the run holds.
C21_Witness ==
    \E r \in RunIds :
        /\ PixelsDone(r)
        /\ runs[r].pixels # BaseOutput(r)
        /\ BaseOutput(r) # runs[r].canvas
        /\ runs[r].fine # Blur(runs[r].pixels, runs[r].w, runs[r].h, N(FineRadius))
        /\ runs[r].fine # Blur(runs[r].canvas, runs[r].w, runs[r].h, N(FineRadius))
        /\ runs[r].fine = Blur(BaseOutput(r), runs[r].w, runs[r].h, N(FineRadius))

(***************************************************************************)
(* C22: the tone loop, the sharpening loop and the pixel loop each leave   *)
(* the alpha byte of every pixel as they found it: they read and write     *)
(* only the red, green and blue of the array they work on.                 *)
(***************************************************************************)
Alphas(px) == [i \in DOMAIN px |-> px[i][4]]

C22_AlphaPreserved ==
    [][\A r \in RunIds :
          /\ Tone(r) => Alphas(runs'[r].canvas) = Alphas(runs[r].canvas)
          /\ Detail(r) => Alphas(runs'[r].pixels) = Alphas(runs[r].pixels)
          /\ Pixels(r) => Alphas(runs'[r].pixels) = Alphas(runs[r].pixels)]_vars

\* A run through the three loops on an image whose alphas are all below
\* 255 and differ from each other: the tone loop changed the canvas, the
\* sharpening and pixel loops changed the pixels, and the alphas are the
\* image's.
C22_Witness ==
    \E r \in RunIds :
        /\ PixelsDone(r)
        /\ \A i \in DOMAIN ImageOf(r).px : ImageOf(r).px[i][4] < ChannelMax
        /\ \E i, j \in DOMAIN ImageOf(r).px : ImageOf(r).px[i][4] # ImageOf(r).px[j][4]
        /\ runs[r].canvas # ImageOf(r).px
        /\ Sharpens(Settings(r))
        /\ runs[r].pixels # BaseOutput(r)
        /\ Alphas(runs[r].canvas) = Alphas(ImageOf(r).px)
        /\ Alphas(runs[r].pixels) = Alphas(ImageOf(r).px)

(***************************************************************************)
(* C30: for every pixel that reaches the vibrance step with vibrance other *)
(* than 1, whatever texture and clarity did to it before, the saturation s *)
(* is a finite number in [0, 1], and so the factor                         *)
(* 1 + (1 - s) * (vibrance - 1) lies between 1 and vibrance.               *)
(***************************************************************************)
VibranceRuns(r) == PixelsDone(r) /\ Settings(r).vibrance # N(1)

UnitSaturation(v) ==
    /\ SaturationOf(v)[2] # 0
    /\ RLe(N(0), SaturationOf(v))
    /\ RLe(SaturationOf(v), N(1))

FactorBetween(v, s) ==
    \/ RLe(N(1), vFactor(v, s)) /\ RLe(vFactor(v, s), s.vibrance)
    \/ RLe(s.vibrance, vFactor(v, s)) /\ RLe(vFactor(v, s), N(1))

C30_SaturationInUnitInterval ==
    \A r \in RunIds :
        VibranceRuns(r) =>
            \A i \in DOMAIN runs[r].steps :
                /\ UnitSaturation(PassValues(r, i).presence)
                /\ FactorBetween(PassValues(r, i).presence, Settings(r))

\* The same for the pixels that texture and clarity left within 0..255.
C30_InRangeOnly ==
    \A r \in RunIds :
        VibranceRuns(r) =>
            \A i \in DOMAIN runs[r].steps :
                (\A c \in 1..3 : ~OutOfRange(PassValues(r, i).presence[c])) =>
                    /\ UnitSaturation(PassValues(r, i).presence)
                    /\ FactorBetween(PassValues(r, i).presence, Settings(r))

(***************************************************************************)
(* App.tsx: the develop panel's preset, manual settings and undo history.  *)
(* Every handler runs to completion on the page's thread and React renders *)
(* between two clicks, so a handler sees the state the previous one left.  *)
(* developPulse (an animation trigger) is not part of the state modelled.  *)
(***************************************************************************)
\* slice(-50) at line 278.
HistoryLimit == 50

\* Clicks and slider moves per behaviour.
MaxClicks == 4

\* { ...a, ...b }
Spread(a, b) == [k \in DOMAIN a \cup DOMAIN b |-> IF k \in DOMAIN b THEN b[k] ELSE a[k]]

\* seq.slice(-n)
SliceLast(seq, n) ==
    IF Len(seq) <= n THEN seq ELSE SubSeq(seq, Len(seq) - n + 1, Len(seq))

\* { preset: selectedPreset, manual: manualSettings }
Snapshot(a) == [preset |-> a.selectedPreset, manual |-> a.manualSettings]

\* pushToHistory appending without the slice.
pushToHistoryUnbounded(a) ==
    [a EXCEPT !.history = Append(a.history, Snapshot(a)), !.redoStack = <<>>]

pushToHistory(a) ==
    [a EXCEPT !.history = SliceLast(Append(a.history, Snapshot(a)), HistoryLimit),
              !.redoStack = <<>>]

undo(a) ==
    IF Len(a.history) = 0 THEN a
    ELSE LET last == a.history[Len(a.history)]
         IN  [a EXCEPT !.redoStack = <<Snapshot(a)>> \o a.redoStack,
                       !.history = SubSeq(a.history, 1, Len(a.history) - 1),
                       !.selectedPreset = last.preset,
                       !.manualSettings = Spread(DEFAULT_MANUAL_SETTINGS, last.manual)]

\* redo putting the entry it restores, not the current state, on the history.
redoPushesNext(a) ==
    IF Len(a.redoStack) = 0 THEN a
    ELSE LET next == a.redoStack[1]
         IN  [a EXCEPT !.history = Append(a.history, next),
                       !.redoStack = Tail(a.redoStack),
                       !.selectedPreset = next.preset,
                       !.manualSettings = Spread(DEFAULT_MANUAL_SETTINGS, next.manual)]

redo(a) ==
    IF Len(a.redoStack) = 0 THEN a
    ELSE LET next == a.redoStack[1]
         IN  [a EXCEPT !.history = Append(a.history, Snapshot(a)),
                       !.redoStack = Tail(a.redoStack),
                       !.selectedPreset = next.preset,
                       !.manualSettings = Spread(DEFAULT_MANUAL_SETTINGS, next.manual)]

selectPreset(a, p) == [pushToHistory(a) EXCEPT !.selectedPreset = p]

updateManual(a, settings) ==
    [a EXCEPT !.manualSettings = Spread(a.manualSettings, settings)]

\* The presets clicked in the panel, the settings the sliders and the
\* assistant's actions write, and the settings stored with the first image
\* of a saved catalogue (a full record, or the fields an older record had).
PanelPresets == {NeuralBokehPro, StudioMasterPro, ProSharpen}

SliderMoves == {[exposure |-> Q(12, 10)], [skinSoftening |-> Q(6, 10)]}

StoredSettings == {[exposure |-> Q(1, 2)], With(DEFAULT_MANUAL_SETTINGS, "vibrance", N(2))}

Clicked(a) == [a EXCEPT !.clicks = @ + 1]

\* Lines 97-114: the catalogue read on mount arrives.
CatalogLoaded ==
    /\ ~app.loaded
    /\ \E stored \in StoredSettings :
          app' = [app EXCEPT !.loaded = TRUE,
                             !.manualSettings = Spread(DEFAULT_MANUAL_SETTINGS, stored)]
    /\ UNCHANGED <<heap, runs, thread>>

\* Line 381: a preset of the panel is clicked.
ClickPreset ==
    /\ app.clicks < MaxClicks
    /\ \E p \in PanelPresets : app' = Clicked(selectPreset(app, p))
    /\ UNCHANGED <<heap, runs, thread>>

\* Lines 520-522: the Undo button, disabled while the history is empty.
ClickUndo ==
    /\ app.clicks < MaxClicks
    /\ Len(app.history) # 0
    /\ app' = Clicked(undo(app))
    /\ UNCHANGED <<heap, runs, thread>>

\* Lines 528-530: the Redo button, disabled while the redo stack is empty.
ClickRedo ==
    /\ app.clicks < MaxClicks
    /\ Len(app.redoStack) # 0
    /\ app' = Clicked(redo(app))
    /\ UNCHANGED <<heap, runs, thread>>

\* Lines 560-771: a slider of the develop panel is moved.
MoveSlider ==
    /\ app.clicks < MaxClicks
    /\ \E settings \in SliderMoves : app' = Clicked(updateManual(app, settings))
    /\ UNCHANGED <<heap, runs, thread>>

\* The state after mount (lines 58-78, 274-275), and the states a user
\* reaches from it by clicking the selected preset again 49 or 50 times.
Repeat(e, n) == [i \in 1..n |-> e]

InitHistory ==
    /\ heap = NoHeap
    /\ thread = 0
    /\ runs = [r \in RunIds |-> NoCall]
    /\ \E p \in {NeuralBokehPro, StudioMasterPro} :
       \E n \in {0, HistoryLimit - 1, HistoryLimit} :
          app = [ selectedPreset |-> p, manualSettings |-> DEFAULT_MANUAL_SETTINGS,
                  history |-> Repeat([preset |-> p, manual |-> DEFAULT_MANUAL_SETTINGS], n),
                  redoStack |-> <<>>, loaded |-> FALSE, clicks |-> 0 ]

NextHistory == CatalogLoaded \/ ClickPreset \/ ClickUndo \/ ClickRedo \/ MoveSlider

SpecHistory == InitHistory /\ [][NextHistory]_vars

(***************************************************************************)
(* C28: from every state with a non-empty history, an undo immediately     *)
(* followed by a redo leaves the selected preset, the manual settings, the *)
(* undo history and the redo stack exactly as they were before the undo.   *)
(***************************************************************************)
EditState(a) == <<a.selectedPreset, a.manualSettings, a.history, a.redoStack>>

C28_UndoRedoRestores ==
    Len(app.history) # 0 => EditState(redo(undo(app))) = EditState(app)

\* A state with settings moved since the last history entry, a redo stack
\* that is not empty and a history whose last entry differs from the
\* current state: the undo changes all four parts and the redo brings them
\* back.
C28_Witness ==
    /\ Len(app.history) # 0
    /\ Len(app.redoStack) # 0
    /\ app.manualSettings # DEFAULT_MANUAL_SETTINGS
    /\ undo(app).selectedPreset # app.selectedPreset
    /\ undo(app).manualSettings # app.manualSettings
    /\ EditState(redo(undo(app))) = EditState(app)

(***************************************************************************)
(* C29: after any sequence of selectPreset, undo and redo operations the   *)
(* undo history holds at most 50 entries.                                  *)
(***************************************************************************)
C29_HistoryBounded == Len(app.history) <= HistoryLimit

\* A full history whose last two entries were pushed by clicks on the
\* panel: the second of them was pushed onto 50 entries and the oldest
\* entry was dropped.
C29_Witness ==
    /\ Len(app.history) = HistoryLimit
    /\ app.clicks >= 2
    /\ app.history[HistoryLimit] # app.history[1]
    /\ app.history[HistoryLimit - 1] # app.history[1]

(***************************************************************************)
(* App.tsx: the catalogue (images, selectedImageId).  handleFileUpload,    *)
(* removeImage and Clear Catalog await the store before they set state;    *)
(* the part after the await runs later, with the selectedImageId of the    *)
(* render in which the handler was called.  Image ids (Math.random, line   *)
(* 248) are modelled as distinct positive numbers, null as 0.              *)
(***************************************************************************)
null == 0

\* Images created per behaviour.
MaxImages == 3

SeqToSet(seq) == {seq[i] : i \in DOMAIN seq}

\* prev.filter(img => img.id !== id)
RECURSIVE Without(_, _)
Without(seq, id) ==
    IF seq = <<>> THEN <<>>
    ELSE IF Head(seq) = id THEN Without(Tail(seq), id)
         ELSE <<Head(seq)>> \o Without(Tail(seq), id)

\* Lines 245-266: the files picked get their ids and saveImageToDB starts.
StartUpload ==
    /\ app.clicks < MaxClicks
    /\ \E n \in 1..2 :
          /\ app.nextId + n - 1 <= MaxImages
          /\ app' = Clicked([app EXCEPT
                        !.nextId = @ + n,
                        !.uploads = @ \cup {[ newImages |-> [i \in 1..n |-> app.nextId + i - 1],
                                              selectedImageId |-> app.selectedImageId ]}])
    /\ UNCHANGED <<heap, runs, thread>>

\* Lines 267-268: every save of one upload has resolved.
UploadSaved ==
    /\ \E u \in app.uploads :
          app' = [app EXCEPT
                    !.uploads = @ \ {u},
                    !.images = @ \o u.newImages,
                    !.selectedImageId =
                        IF u.selectedImageId = null /\ Len(u.newImages) > 0
                        THEN u.newImages[1] ELSE @]
    /\ UNCHANGED <<heap, runs, thread>>

\* Line 458: a thumbnail of the filmstrip is clicked.
ClickThumbnail ==
    /\ app.clicks < MaxClicks
    /\ \E id \in SeqToSet(app.images) : app' = Clicked([app EXCEPT !.selectedImageId = id])
    /\ UNCHANGED <<heap, runs, thread>>

\* Lines 320-322: the remove button of a thumbnail; deleteImageFromDB starts.
ClickRemove ==
    /\ app.clicks < MaxClicks
    /\ \E id \in SeqToSet(app.images) :
          app' = Clicked([app EXCEPT
                    !.removals = @ \cup {[id |-> id, selectedImageId |-> app.selectedImageId]}])
    /\ UNCHANGED <<heap, runs, thread>>

\* Lines 323-331: a deletion has resolved.
RemoveDeleted ==
    /\ \E d \in app.removals :
          LET filtered == Without(app.images, d.id)
          IN  app' = [app EXCEPT
                        !.removals = @ \ {d},
                        !.images = filtered,
                        !.selectedImageId =
                            IF d.selectedImageId = d.id /\ Len(filtered) > 0 THEN filtered[1]
                            ELSE IF Len(filtered) = 0 THEN null
                            ELSE @]
    /\ UNCHANGED <<heap, runs, thread>>

\* Line 810: Clear Catalog confirmed; clearDB starts.
ClickClear ==
    /\ app.clicks < MaxClicks
    /\ app' = Clicked([app EXCEPT !.clears = @ + 1])
    /\ UNCHANGED <<heap, runs, thread>>

\* Line 810, after the await.
ClearDone ==
    /\ app.clears > 0
    /\ app' = [app EXCEPT !.clears = @ - 1, !.images = <<>>, !.selectedImageId = null]
    /\ UNCHANGED <<heap, runs, thread>>

\* The state after mount: an empty catalogue, or one image restored from
\* the store (lines 97-114), nothing selected.
InitCatalog ==
    /\ heap = NoHeap
    /\ thread = 0
    /\ runs = [r \in RunIds |-> NoCall]
    /\ \E restored \in 0..1 :
          app = [ images |-> [i \in 1..restored |-> i], selectedImageId |-> null,
                  nextId |-> restored + 1, uploads |-> {}, removals |-> {}, clears |-> 0,
                  clicks |-> 0 ]

NextCatalog ==
    \/ StartUpload
    \/ UploadSaved
    \/ ClickThumbnail
    \/ ClickRemove
    \/ RemoveDeleted
    \/ ClickClear
    \/ ClearDone

SpecCatalog == InitCatalog /\ [][NextCatalog]_vars

(***************************************************************************)
(* C26: after any sequence of uploads, thumbnail selections, removals and  *)
(* clear-catalog actions, overlapping deletions included, selectedImageId  *)
(* is null or the id of an image in the image list.                        *)
(***************************************************************************)
C26_SelectionInList ==
    app.selectedImageId = null \/ app.selectedImageId \in SeqToSet(app.images)

(***************************************************************************)
(* App.tsx: folder automation (lines 118-159, 829-842).  Every run of the  *)
(* effect with automation on starts a loop: a closure holding the          *)
(* isAutoActive, sourceDir, selectedPreset and manualSettings of its       *)
(* render and its own timeoutId, whose scan walks the directory, awaits    *)
(* each new file and its processImage, and re-arms itself with setTimeout. *)
(* The effect's cleanup is clearTimeout(timeoutId).  processedFileNames is *)
(* one Set shared by all loops.                                            *)
(***************************************************************************)
\* Clicks on the automation buttons and the presets per behaviour.
MaxAutoClicks == 3

\* The entries of the watched directory, in the order values() yields
\* them, each with its MIME type as <<type, subtype>>.
DirFiles ==
    << [name |-> "a.jpg", type |-> <<"image", "jpeg">>],
       [name |-> "notes.txt", type |-> <<"text", "plain">>],
       [name |-> "b.jpg", type |-> <<"image", "jpeg">>] >>

\* A loop as the effect body creates it (lines 119-147): scan() runs up to
\* its first await.
NewLoop(a) ==
    [ isAutoActive |-> a.isAutoActive, preset |-> a.selectedPreset,
      pc |-> "entries", next |-> 1, mounted |-> TRUE ]

RemoveAt(seq, i) == SubSeq(seq, 1, i - 1) \o SubSeq(seq, i + 1, Len(seq))

\* Line 148: the cleanup of the effect that is mounted, if any, clears the
\* timer its closure holds; a scan of that closure that is under way has
\* no timer to clear.
RECURSIVE Cleanup(_)
Cleanup(loops) ==
    IF loops = <<>> THEN <<>>
    ELSE IF Head(loops).mounted
         THEN IF Head(loops).pc = "timer" THEN Tail(loops)
              ELSE <<[Head(loops) EXCEPT !.mounted = FALSE]>> \o Tail(loops)
         ELSE <<Head(loops)>> \o Cleanup(Tail(loops))

\* Lines 118-149: a dependency changed; React runs the cleanup of the
\* previous effect and then the effect body.
Effect(a) ==
    LET cleaned == Cleanup(a.loops)
    IN  [a EXCEPT !.loops = IF a.isAutoActive /\ a.sourceDir
                            THEN Append(cleaned, NewLoop(a)) ELSE cleaned]

\* Lines 150-159: a directory is picked.
startFolderWatching ==
    /\ app.clicks < MaxAutoClicks
    /\ ~app.sourceDir
    /\ app' = Clicked(Effect([app EXCEPT !.sourceDir = TRUE, !.isAutoActive = TRUE]))
    /\ UNCHANGED <<heap, runs, thread>>

\* Line 831: Pause / Resume.
PauseResume ==
    /\ app.clicks < MaxAutoClicks
    /\ app.sourceDir
    /\ app' = Clicked(Effect([app EXCEPT !.isAutoActive = ~app.isAutoActive]))
    /\ UNCHANGED <<heap, runs, thread>>

\* Line 837: Stop.
StopWatching ==
    /\ app.clicks < MaxAutoClicks
    /\ app.sourceDir
    /\ app' = Clicked(Effect([app EXCEPT !.isAutoActive = FALSE, !.sourceDir = FALSE]))
    /\ UNCHANGED <<heap, runs, thread>>

\* Lines 300-304: another preset is selected (a dependency of the effect).
PresetChanged ==
    /\ app.clicks < MaxAutoClicks
    /\ \E p \in {NeuralBokehPro, StudioMasterPro} \ {app.selectedPreset} :
          app' = Clicked(Effect([app EXCEPT !.selectedPreset = p]))
    /\ UNCHANGED <<heap, runs, thread>>

\* Lines 126-127: the directory iterator yields the next entry; a file
\* whose name is not in processedFileNames is fetched and processed.
ScanEntry(i) ==
    /\ i \in DOMAIN app.loops
    /\ app.loops[i].pc = "entries"
    /\ app.loops[i].next <= Len(DirFiles)
    /\ app' = [app EXCEPT
                  !.loops[i] =
                      IF DirFiles[app.loops[i].next].name \notin app.processedFileNames
                      THEN [@ EXCEPT !.pc = "file"]
                      ELSE [@ EXCEPT !.next = @ + 1]]
    /\ UNCHANGED <<heap, runs, thread>>

\* Lines 128-139: getFile and, for an image, processImage have resolved;
\* the image is appended and its name recorded.
ScanFile(i) ==
    /\ i \in DOMAIN app.loops
    /\ app.loops[i].pc = "file"
    /\ LET entry == DirFiles[app.loops[i].next]
           isImage == entry.type[1] = "image"
       IN  app' = [app EXCEPT
                     !.loops[i] = [@ EXCEPT !.pc = "entries", !.next = @ + 1],
                     !.images = IF isImage
                                THEN Append(@, [name |-> entry.name, preset |-> app.loops[i].preset])
                                ELSE @,
                     !.processedFileNames = IF isImage THEN @ \cup {entry.name} ELSE @]
    /\ UNCHANGED <<heap, runs, thread>>

\* Line 145: the iteration is over; the scan re-arms itself if the
\* isAutoActive of its closure is true.
ScanDone(i) ==
    /\ i \in DOMAIN app.loops
    /\ app.loops[i].pc = "entries"
    /\ app.loops[i].next > Len(DirFiles)
    /\ app' = [app EXCEPT
                  !.loops = IF app.loops[i].isAutoActive
                            THEN [@ EXCEPT ![i].pc = "timer"]
                            ELSE RemoveAt(@, i)]
    /\ UNCHANGED <<heap, runs, thread>>

\* Lines 122-123: the timer fires and scan() starts again.
TimerFires(i) ==
    /\ i \in DOMAIN app.loops
    /\ app.loops[i].pc = "timer"
    /\ app' = [app EXCEPT
                  !.loops = IF app.loops[i].isAutoActive
                            THEN [@ EXCEPT ![i].pc = "entries", ![i].next = 1]
                            ELSE RemoveAt(@, i)]
    /\ UNCHANGED <<heap, runs, thread>>

\* The state after mount (lines 58-78).
InitAuto ==
    /\ heap = NoHeap
    /\ thread = 0
    /\ runs = [r \in RunIds |-> NoCall]
    /\ app = [ isAutoActive |-> FALSE, sourceDir |-> FALSE, selectedPreset |-> NeuralBokehPro,
               processedFileNames |-> {}, images |-> <<>>, loops |-> <<>>, clicks |-> 0 ]

\* Every click starts at most one loop.
LoopIds == 1..MaxAutoClicks

ScanStep == \E i \in LoopIds : ScanEntry(i) \/ ScanFile(i) \/ ScanDone(i) \/ TimerFires(i)

NextAuto ==
    \/ startFolderWatching
    \/ PauseResume
    \/ StopWatching
    \/ PresetChanged
    \/ \E i \in LoopIds : ScanEntry(i)
    \/ \E i \in LoopIds : ScanFile(i)
    \/ \E i \in LoopIds : ScanDone(i)
    \/ \E i \in LoopIds : TimerFires(i)

SpecAuto == InitAuto /\ [][NextAuto]_vars

\* Timers fire, the directory iterator yields and the awaited files and
\* processImage calls (on images that decode) resolve; nothing makes the
\* user click.
SpecAutoFair == SpecAuto /\ WF_vars(ScanStep)

(***************************************************************************)
(* C23: for any interleaving of scans, a scan restarted by a change of     *)
(* preset or settings while an earlier one awaits a file included, each    *)
(* file name of the directory is appended to the image list at most once.  *)
(***************************************************************************)
C23_AppendedAtMostOnce ==
    \A i, j \in DOMAIN app.images :
        app.images[i].name = app.images[j].name => i = j

(***************************************************************************)
(* C24: after automation is paused or stopped, eventually no further scan  *)
(* starts and no further image is appended, also when a scan was under way *)
(* at the pause: unless automation is resumed, every loop comes to an end. *)
(***************************************************************************)
Quiet == app.loops = <<>>

C24_PauseQuiesces == (~app.isAutoActive) ~> (app.isAutoActive \/ Quiet)

(***************************************************************************)
(* App.tsx: the debounced live preview (lines 191-201).  Every change of   *)
(* the selected image, the preset or the manual settings runs the cleanup  *)
(* of the previous effect, clearTimeout(timer), and arms a new 150 ms      *)
(* timer; a timer that fires calls processImage with the values of its     *)
(* render and stores the result when the promise resolves.  A call on an   *)
(* image that decodes resolves with processImage's value; a call on one    *)
(* that does not stays pending.  Calls on different images resolve in any  *)
(* order.  The state keeps, for processedPreview, the call whose result it *)
(* holds; PreviewValue is the data URL itself.                             *)
(***************************************************************************)
\* Changes of image, preset or settings per behaviour.
MaxEdits == 3

\* The previews of the catalogue's images.
Catalogue == <<Decodable(Row(ContrastRow)), Decodable(Row(GreyRow)), Corrupt>>

PreviewPresets == {NeuralBokehPro, StudioMasterPro}

PreviewManuals == {DEFAULT_MANUAL_SETTINGS, With(DEFAULT_MANUAL_SETTINGS, "exposure", Q(12, 10))}

\* The values the effect closes over.
Closure(a) ==
    [selectedImage |-> a.selectedImage, selectedPreset |-> a.selectedPreset,
     manualSettings |-> a.manualSettings]

\* What processImage resolves with for a closure on a decodable image.
Result(c) ==
    processImage(Catalogue[c.selectedImage].image, c.selectedPreset, c.manualSettings)

\* The value of processedPreview: null, or the data URL the call resolved with.
PreviewValue(a) ==
    IF a.processedPreview = Undefined THEN Undefined
    ELSE Some(Result(The(a.processedPreview)))

\* Lines 194-200: the cleanup of the previous effect and the new timer.
PreviewEffect(a) == [a EXCEPT !.timer = Some(Closure(a))]

\* A thumbnail, a preset or a slider changes a dependency of the effect.
EditChanged ==
    /\ app.clicks < MaxEdits
    /\ \E i \in DOMAIN Catalogue, p \in PreviewPresets, ms \in PreviewManuals :
          LET a == [app EXCEPT !.selectedImage = i, !.selectedPreset = p, !.manualSettings = ms]
          IN  /\ Cardinality({f \in {"selectedImage", "selectedPreset", "manualSettings"} :
                                  a[f] # app[f]}) = 1
              /\ app' = Clicked(PreviewEffect(a))
    /\ UNCHANGED <<heap, runs, thread>>

\* Lines 196-197: the timer fires and processImage is called.
TimerElapsed ==
    /\ app.timer # Undefined
    /\ app' = [app EXCEPT !.timer = Undefined, !.calls = Append(@, The(app.timer))]
    /\ UNCHANGED <<heap, runs, thread>>

\* Lines 197-198: a call resolves and its result becomes the preview.
PreviewResolved(k) ==
    /\ k \in DOMAIN app.calls
    /\ Catalogue[app.calls[k].selectedImage].ok
    /\ app' = [app EXCEPT !.calls = RemoveAt(@, k),
                          !.processedPreview = Some(app.calls[k])]
    /\ UNCHANGED <<heap, runs, thread>>

\* The state after mount with the catalogue restored: the first image is
\* the selected one and the effect has armed its first timer.
InitPreview ==
    /\ heap = NoHeap
    /\ thread = 0
    /\ runs = [r \in RunIds |-> NoCall]
    /\ \E p \in PreviewPresets :
          app = PreviewEffect([ selectedImage |-> 1, selectedPreset |-> p,
                                manualSettings |-> DEFAULT_MANUAL_SETTINGS,
                                processedPreview |-> Undefined, timer |-> Undefined,
                                calls |-> <<>>, clicks |-> 0 ])

\* Every edit leads to at most one call; the first timer to one more.
CallIds == 1..(MaxEdits + 1)

NextPreview ==
    \/ EditChanged
    \/ TimerElapsed
    \/ \E k \in CallIds : PreviewResolved(k)

SpecPreview == InitPreview /\ [][NextPreview]_vars

(***************************************************************************)
(* C25: once the selected image, the preset and the settings stop          *)
(* changing, the preview comes to hold, and keeps, the result of           *)
(* processing the latest image with the latest preset and settings; the    *)
(* result of a superseded run never overwrites it.  In particular, when    *)
(* no timer is pending and every call has resolved, the preview is the     *)
(* result for the current values.                                          *)
(***************************************************************************)
PreviewSettled == app.timer = Undefined /\ app.calls = <<>>

C25_PreviewIsLatest ==
    PreviewSettled => PreviewValue(app) = Some(Result(Closure(app)))

(***************************************************************************)
(* App.tsx: the export (processAndDownload, lines 161-189).  The handler   *)
(* is one async function: it awaits loadModels for a preset that needs the *)
(* segmentation model, then processImage for each image of the list it was *)
(* called with, then the zip.  A processImage call on an image that does   *)
(* not decode never settles.                                               *)
(***************************************************************************)
\* Exports per behaviour.
MaxExports == 2

\* The image lists exported: up to MaxImages images of the catalogue.
ExportLists == UNION {[1..n -> DOMAIN Catalogue] : n \in 1..MaxImages}

\* Line 165.
NeedsModels(preset) ==
    \/ preset.overlay # Undefined /\ The(preset.overlay).type = "neural-bokeh"
    \/ preset.aiSubjectOnly # Undefined /\ The(preset.aiSubjectOnly)

\* Lines 161-172: the Export button, up to the first await.
processAndDownload ==
    /\ app.exports < MaxExports
    /\ Len(app.images) # 0 /\ ~app.isProcessing
    /\ app' = [app EXCEPT !.exports = @ + 1, !.isProcessing = TRUE, !.processedCount = 0,
                          !.zip = <<>>, !.item = 1,
                          !.pc = IF NeedsModels(app.selectedPreset) THEN "loadModels"
                                 ELSE "processImage"]
    /\ UNCHANGED <<heap, runs, thread>>

\* Line 166: loadModels has resolved; the loop calls processImage.
ModelsLoaded ==
    /\ app.pc = "loadModels"
    /\ app' = [app EXCEPT !.pc = "processImage"]
    /\ UNCHANGED <<heap, runs, thread>>

\* Lines 172-182: processImage has resolved for the current item; it goes
\* into the zip, the count goes up and the loop moves on.
ItemProcessed ==
    /\ app.pc = "processImage"
    /\ Catalogue[app.images[app.item]].ok
    /\ app' = [app EXCEPT !.zip = Append(@, app.images[app.item]),
                          !.processedCount = @ + 1,
                          !.item = @ + 1,
                          !.pc = IF app.item < Len(app.images) THEN "processImage"
                                 ELSE "generateAsync"]
    /\ UNCHANGED <<heap, runs, thread>>

\* Lines 183-188: the zip is generated and downloaded.
ZipDownloaded ==
    /\ app.pc = "generateAsync"
    /\ app' = [app EXCEPT !.pc = "idle", !.isProcessing = FALSE]
    /\ UNCHANGED <<heap, runs, thread>>

InitExport ==
    /\ heap = NoHeap
    /\ thread = 0
    /\ runs = [r \in RunIds |-> NoCall]
    /\ \E list \in ExportLists, p \in PreviewPresets :
          app = [ images |-> list, selectedPreset |-> p, isProcessing |-> FALSE,
                  processedCount |-> 0, zip |-> <<>>, item |-> 0, pc |-> "idle",
                  exports |-> 0 ]

ExportStep == ModelsLoaded \/ ItemProcessed \/ ZipDownloaded

NextExport == processAndDownload \/ ModelsLoaded \/ ItemProcessed \/ ZipDownloaded

SpecExport == InitExport /\ [][NextExport]_vars

\* Awaited promises that settle are resumed; nothing makes the user click.
SpecExportFair == SpecExport /\ WF_vars(ExportStep)

(***************************************************************************)
(* C27: an export over any non-empty image list eventually finishes,       *)
(* whether or not every image can be decoded: each image has been          *)
(* processed exactly once, processedCount is the number of images and      *)
(* isProcessing is false again.                                            *)
(***************************************************************************)
ExportFinished ==
    /\ ~app.isProcessing
    /\ app.processedCount = Len(app.images)
    /\ app.zip = app.images

C27_ExportFinishes == app.isProcessing ~> ExportFinished

\* The same for the lists whose images all decode.
AllDecode == \A i \in DOMAIN app.images : Catalogue[app.images[i]].ok

C27_DecodableExportFinishes == (app.isProcessing /\ AllDecode) ~> ExportFinished

====
